---- MODULE Spec2Model ----
(***************************************************************************)
(* The session-validated, role-gated edge functions of the repository      *)
(* (manage-promotions, delete-post, manage-community), the SQL function    *)
(* validate_session they call, and the client-side permission resolver     *)
(* useCommunityPermissions, over the tables they read and write; and, each  *)
(* in a specification of its own, the admin hook useAdminAuthSupabase, the *)
(* poll components (PollsTab, PollCard, CreatePollDialog) and the          *)
(* database functions auto_hide_post_on_reports and cleanup_old_messages.  *)
(*                                                                         *)
(* A handler runs as a sequence of steps, one per awaited store access;    *)
(* between two steps of a request the clock may advance.  Every store      *)
(* access a request issues is appended to req.ops, so the order of the     *)
(* checks and the absence of a mutation are properties of the state.       *)
(*                                                                         *)
(* JavaScript values: a missing or empty string is "", a missing id is 0   *)
(* (both falsy, as the handlers test them with !x); an optional boolean is *)
(* <<>> (undefined) or <<b>>.  SQL NULL of a uuid is "".                   *)
(***************************************************************************)
EXTENDS Integers, Sequences, FiniteSets, TLC

\* ---------------------------------------------------------------- bounds
\* The clock runs over 0..MaxTime.
MaxTime == 2
\* Generated ids (promotions, communities) run over 1..MaxId.
MaxId == 2
\* The number of requests a behaviour receives.
MaxRequests == 2
\* The number of rows community_poll_votes may hold.
MaxVotes == 3
\* The number of rows reports may hold, counting the uncommitted ones.
MaxReports == 11
\* The number of rows community_polls may hold.
MaxPolls == 3
\* Message ids run over 1..MaxMessages, conversation ids over
\* 1..MaxConversations; cleanup_old_messages is called MaxCleanups times.
MaxMessages == 6
MaxConversations == 4
MaxCleanups == 2

\* ------------------------------------------------------------ value sets
\* The reports a post needs to be hidden automatically.
HideThreshold == 10

\* interval '7 days', in days, the unit of the clock.
RetentionDays == 7

\* Tokens a request may carry: "" is an absent token, "TX" has no row.
Tokens == {"", "T1", "T2", "T3", "T4", "T5", "TI", "TX"}
\* The tokens sent to delete-post and manage-community, which read no role.
MemberTokens == {"", "T1", "T2", "T3", "TI", "TX"}

\* Ids a request may name: 0 is an absent id.
Ids == 0..MaxId

Undefined == <<>>
\* Optional text of a payload: the field left out, and SQL NULL / JS null.
Absent == "<undefined>"
Null == "<null>"
\* x || null on an optional text: undefined and "" are falsy.
OrNull(x) == IF x \in {Absent, "", Null} THEN Null ELSE x
OptBool == {Undefined, <<TRUE>>, <<FALSE>>}

\* The three admin tiers; the role column also holds "support_agent".
RecognizedRoles == {"super_admin", "content_moderator", "category_manager"}

CommunityPermissionType ==
    {"edit_community", "create_polls", "moderate_discussions", "manage_members"}

\* String.prototype.trim on the strings the model uses.
Trim(s) ==
    CASE s = "  " -> ""
      [] s = " club " -> "club"
      [] s = " chess " -> "chess"
      [] s = " a " -> "a"
      [] OTHER -> s

\* ----------------------------------------------------------------- state
VARIABLES
    now,                  \* the clock (new Date() / now())
    user_sessions,        \* token -> [user_id, is_active, expires_at]
    user_roles,           \* set of [user_id, role]
    promotional_content,  \* id -> [title, content_type, is_active, created_by]
    nextPromotionId,      \* the next generated promotion id
    communities,          \* id -> [name, created_by]
    nextCommunityId,      \* the next generated community id
    community_members,    \* set of [community_id, user_id, role]
    community_permissions,\* set of [user_id, community_id, permission]
    posts,                \* id -> [user_id]
    post_likes,           \* set of [post_id, user_id]
    comments,             \* set of [post_id, user_id]
    served,               \* the number of requests received so far
    req,                  \* the request in flight, or the last one answered
    hook,                 \* one mounted useCommunityPermissions
    grant,                \* the hook's grantPermission / revokePermission call
    admin,                \* useAdminAuthSupabase and its localStorage entry
    community_polls,      \* sequence of [community_id, created_by, question]
    community_poll_options, \* set of [poll_id, n, option_text]
    community_poll_votes, \* sequence of [poll_id, option_id, user_id]
    views,                \* the open PollsTab views with their PollCards
    dialog,               \* one CreatePollDialog
    reports,              \* set of [id, reported_type, reported_id]
    is_hidden,            \* the posts whose is_hidden is true
    txs,                  \* the transactions inserting into reports
    messages,             \* set of [id, conversation_id, created_at]
    conversations,        \* set of conversation ids
    cleanup               \* the last call of cleanup_old_messages

store == <<user_sessions, user_roles, promotional_content, nextPromotionId,
           communities, nextCommunityId, community_members,
           community_permissions, posts, post_likes, comments>>

vars == <<now, user_sessions, user_roles, promotional_content, nextPromotionId,
          communities, nextCommunityId, community_members,
          community_permissions, posts, post_likes, comments, served, req,
          hook, grant, admin, community_polls, community_poll_options,
          community_poll_votes, views, dialog, reports, is_hidden, txs,
          messages, conversations, cleanup>>

\* The state held in the browser.
client == <<hook>>

\* The polls of the communities.
polls == <<community_polls, community_poll_options, community_poll_votes>>

\* The rest of the application: the other browser components, and the tables
\* that only they and the database's own functions write.
others == <<grant, admin, polls, views, dialog, reports, is_hidden, txs,
            messages, conversations, cleanup>>

\* ------------------------------------------------------------- requests
\* The fields of a request: the body (and, for manage-community, the header
\* token), the handler's position and locals, its response, and the store
\* accesses it has issued so far.  at and before are history, read by no
\* handler.
NoRequest ==
    [fn |-> "", action |-> "", session_token |-> "", id |-> 0,
     title |-> "", content_type |-> "", is_active |-> Undefined, name |-> "",
     pc |-> "idle", userId |-> "", status |-> 0, error |-> "", data |-> <<>>,
     ops |-> <<>>, at |-> 0, before |-> <<>>,
     description |-> Absent, rejected |-> {}, prev |-> <<>>]

\* The tables the handlers write.
Tables == <<promotional_content, communities, community_members, posts,
            post_likes, comments>>

\* A request as it arrives; it remembers the tables as they were then, and
\* the clock reading its session test used (until that test, its arrival).
NewRequest(fn, action, token, id) ==
    [NoRequest EXCEPT !.fn = fn, !.action = action, !.session_token = token,
                      !.id = id, !.pc = "start", !.at = now, !.before = Tables]

\* new Response(JSON.stringify({error}), {status})
ErrorResponse(r, status, error) ==
    [r EXCEPT !.pc = "done", !.status = status, !.error = error]

\* new Response(JSON.stringify({success: true, data}), {status: 200})
SuccessResponse(r, data) ==
    [r EXCEPT !.pc = "done", !.status = 200, !.data = data]

\* One store access issued by the request.
Access(r, kind, table) == [r EXCEPT !.ops = Append(@, <<kind, table>>)]

\* The session test, which reads the clock.
SessionAccess(r, kind, table) == [Access(r, kind, table) EXCEPT !.at = now]

\* The store rejects the statement the request has just issued (req.rejected
\* holds the positions of the rejected statements in req.ops).
Rejected(r) == [r EXCEPT !.rejected = @ \cup {Len(r.ops)}]

MutationKinds == {"insert", "update", "delete"}
Mutations(r) == {i \in 1..Len(r.ops) : r.ops[i][1] \in MutationKinds}

Idle == req.pc = "idle"

\* The response has been sent: the handler keeps nothing of the request.
Finish ==
    /\ req.pc = "done"
    /\ req' = NoRequest
    /\ UNCHANGED <<now, store, served, client, others>>

\* ------------------------------------------------------ session validator
\* public.validate_session(p_session_token): the owning user, or NULL.
validate_session(p_session_token) ==
    IF /\ p_session_token \in DOMAIN user_sessions
       /\ user_sessions[p_session_token].is_active = TRUE
       /\ user_sessions[p_session_token].expires_at > now
    THEN user_sessions[p_session_token].user_id
    ELSE ""

\* manage-promotions: .from("user_sessions").select(...).eq(...).single();
\* no row is an error of .single().
sessionError(session_token) == session_token \notin DOMAIN user_sessions

\* sessionRejected without the test of is_active.
sessionRejectedIgnoringActive(session_token) ==
    \/ sessionError(session_token)
    \/ user_sessions[session_token].expires_at < now

\* manage-promotions, the inline test of the row that was read.
sessionRejected(session_token) ==
    \/ sessionError(session_token)
    \/ ~user_sessions[session_token].is_active
    \/ user_sessions[session_token].expires_at < now

\* ---------------------------------------------------------- role resolver
\* .from("user_roles").select("role").eq("user_id", user_id)
rolesOf(user_id) == {x.role : x \in {y \in user_roles : y.user_id = user_id}}

\* hasAdminRole with every in place of some.
hasAdminRoleEvery(roles) == \A r \in roles : r \in RecognizedRoles

hasAdminRole(roles) == \E r \in roles : r \in RecognizedRoles

\* ----------------------------------------------------- manage-promotions
PromotionActions == {"list", "create", "update", "delete", "toggle_active"}

\* The requests manage-promotions is sent: every action with the payload
\* fields it reads, and one action outside the enumeration.
PromotionRequests ==
    LET base(a, t, i) == NewRequest("manage-promotions", a, t, i) IN
    UNION {
      {base(a, t, 0) : a \in {"list", "frobnicate"}, t \in Tokens},
      {[base("create", t, 0) EXCEPT !.title = ti, !.content_type = ct,
                                    !.is_active = ia] :
          t \in Tokens, ti \in {"", "Sale"}, ct \in {"", "image"},
          ia \in {Undefined, <<FALSE>>}},
      {[base("update", t, i) EXCEPT !.title = p[1], !.is_active = p[2]] :
          t \in Tokens, i \in Ids,
          p \in {<<"", Undefined>>, <<"Offer", <<FALSE>> >>}},
      {base("delete", t, i) : t \in Tokens, i \in Ids},
      {[base("toggle_active", t, i) EXCEPT !.is_active = ia] :
          t \in Tokens, i \in Ids, ia \in OptBool}
    }

\* serve: the body is parsed and the token's presence tested.
PromotionsStart ==
    /\ Idle /\ served < MaxRequests
    /\ \E r \in PromotionRequests :
         /\ r.action = "create" => nextPromotionId <= MaxId
         /\ req' = IF r.session_token = ""
                   THEN ErrorResponse(r, 401, "Session token is required")
                   ELSE [r EXCEPT !.pc = "session"]
    /\ served' = served + 1
    /\ UNCHANGED <<now, store, client, others>>

\* PromotionsSession with a failed test deactivating the row it read.
PromotionsSessionDeactivating ==
    /\ req.fn = "manage-promotions" /\ req.pc = "session"
    /\ LET r == SessionAccess(req, "select", "user_sessions") IN
       req' = IF sessionRejected(req.session_token)
              THEN ErrorResponse(r, 401, "Invalid or expired session")
              ELSE [r EXCEPT !.pc = "roles",
                             !.userId = user_sessions[req.session_token].user_id]
    /\ user_sessions' =
         IF ~sessionError(req.session_token)
            /\ sessionRejected(req.session_token)
         THEN [user_sessions EXCEPT ![req.session_token].is_active = FALSE]
         ELSE user_sessions
    /\ UNCHANGED <<now, user_roles, promotional_content, nextPromotionId,
                   communities, nextCommunityId, community_members,
                   community_permissions, posts, post_likes, comments, served,
                   client, others>>

\* The session row is read and tested.
PromotionsSession ==
    /\ req.fn = "manage-promotions" /\ req.pc = "session"
    /\ LET r == SessionAccess(req, "select", "user_sessions") IN
       req' = IF sessionRejected(req.session_token)
              THEN ErrorResponse(r, 401, "Invalid or expired session")
              ELSE [r EXCEPT !.pc = "roles",
                             !.userId = user_sessions[req.session_token].user_id]
    /\ UNCHANGED <<now, store, served, client, others>>

\* PromotionsInputError without the default case: an action outside the
\* enumeration runs into the last case's input test.
PromotionsInputErrorNoDefault(r) ==
    CASE r.action = "list" -> ""
      [] r.action = "create" ->
           IF r.title = "" \/ r.content_type = ""
           THEN "Title and content_type are required" ELSE ""
      [] r.action \in {"update", "delete"} ->
           IF r.id = 0 THEN "ID is required" ELSE ""
      [] OTHER ->
           IF r.id = 0 \/ r.is_active = Undefined
           THEN "ID and is_active are required" ELSE ""

\* The input tests of the switch's cases that precede their store access.
PromotionsInputError(r) ==
    CASE r.action = "list" -> ""
      [] r.action = "create" ->
           IF r.title = "" \/ r.content_type = ""
           THEN "Title and content_type are required" ELSE ""
      [] r.action = "update" -> IF r.id = 0 THEN "ID is required" ELSE ""
      [] r.action = "delete" -> IF r.id = 0 THEN "ID is required" ELSE ""
      [] r.action = "toggle_active" ->
           IF r.id = 0 \/ r.is_active = Undefined
           THEN "ID and is_active are required" ELSE ""
      [] OTHER -> "Invalid action"

\* PromotionsRoles with the role test left out for the read-only list.
PromotionsRolesListOpen ==
    /\ req.fn = "manage-promotions" /\ req.pc = "roles"
    /\ LET r == Access(req, "select", "user_roles")
           roles == rolesOf(req.userId)
       IN
       req' = IF req.action # "list" /\ (roles = {} \/ ~hasAdminRole(roles))
              THEN ErrorResponse(r, 403, "Unauthorized - Admin access required")
              ELSE IF PromotionsInputError(r) # ""
              THEN ErrorResponse(r, 400, PromotionsInputError(r))
              ELSE [r EXCEPT !.pc = "act"]
    /\ UNCHANGED <<now, store, served, client, others>>

\* The role rows are read and tested; then the switch up to the case's await.
PromotionsRoles ==
    /\ req.fn = "manage-promotions" /\ req.pc = "roles"
    /\ LET r == Access(req, "select", "user_roles")
           roles == rolesOf(req.userId)
       IN
       req' = IF roles = {} \/ ~hasAdminRole(roles)
              THEN ErrorResponse(r, 403, "Unauthorized - Admin access required")
              ELSE IF PromotionsInputError(r) # ""
              THEN ErrorResponse(r, 400, PromotionsInputError(r))
              ELSE [r EXCEPT !.pc = "act"]
    /\ UNCHANGED <<now, store, served, client, others>>

\* case 'list'
PromotionsList ==
    /\ req.fn = "manage-promotions" /\ req.pc = "act" /\ req.action = "list"
    /\ req' = SuccessResponse(Access(req, "select", "promotional_content"),
                              <<promotional_content>>)
    /\ UNCHANGED <<now, store, served, client, others>>

\* PromotionsCreate with the payload stored as it was sent, no default and
\* no null in place of an empty text.
PromotionsCreateRaw ==
    /\ req.fn = "manage-promotions" /\ req.pc = "act" /\ req.action = "create"
    /\ LET r == Access(req, "insert", "promotional_content")
           row == [title |-> req.title,
                   description |-> req.description,
                   content_type |-> req.content_type,
                   is_active |-> IF req.is_active = Undefined THEN FALSE
                                 ELSE req.is_active[1],
                   created_by |-> req.userId]
       IN
       /\ promotional_content' =
             [i \in DOMAIN promotional_content \cup {nextPromotionId} |->
                IF i = nextPromotionId THEN row ELSE promotional_content[i]]
       /\ nextPromotionId' = nextPromotionId + 1
       /\ req' = SuccessResponse(r, <<nextPromotionId, row>>)
    /\ UNCHANGED <<now, user_sessions, user_roles, communities, nextCommunityId,
                   community_members, community_permissions, posts, post_likes,
                   comments, served,
                   client, others>>

\* case 'create': the insert succeeds, or the store rejects it and the
\* thrown error is answered by the catch block.
PromotionsCreate ==
    /\ req.fn = "manage-promotions" /\ req.pc = "act" /\ req.action = "create"
    /\ LET r == Access(req, "insert", "promotional_content")
           row == [title |-> req.title,
                   description |-> OrNull(req.description),
                   content_type |-> req.content_type,
                   is_active |-> IF req.is_active = Undefined THEN TRUE
                                 ELSE req.is_active[1],
                   created_by |-> req.userId]
       IN
       \/ /\ promotional_content' =
                [i \in DOMAIN promotional_content \cup {nextPromotionId} |->
                   IF i = nextPromotionId THEN row ELSE promotional_content[i]]
          /\ nextPromotionId' = nextPromotionId + 1
          /\ req' = SuccessResponse(r, <<nextPromotionId, row>>)
       \/ /\ UNCHANGED <<promotional_content, nextPromotionId>>
          /\ req' = ErrorResponse(Rejected(r), 500, "store error")
    /\ UNCHANGED <<now, user_sessions, user_roles, communities, nextCommunityId,
                   community_members, community_permissions, posts, post_likes,
                   comments, served,
                   client, others>>

\* case 'update': .update({...}).eq("id", id).select().single(); a field
\* that is undefined is left out of the statement, a field written x || null
\* is always part of it, and no row is an error of .single(), which the
\* handler throws.
PromotionsUpdate ==
    /\ req.fn = "manage-promotions" /\ req.pc = "act" /\ req.action = "update"
    /\ LET r == Access(req, "update", "promotional_content") IN
       \/ /\ req.id \in DOMAIN promotional_content
          /\ LET row == [promotional_content[req.id] EXCEPT
                           !.title = IF req.title = "" THEN @ ELSE req.title,
                           !.description = OrNull(req.description),
                           !.is_active = IF req.is_active = Undefined THEN @
                                         ELSE req.is_active[1]]
             IN /\ promotional_content' =
                      [promotional_content EXCEPT ![req.id] = row]
                /\ req' = SuccessResponse(r, <<req.id, row>>)
       \/ /\ req.id \notin DOMAIN promotional_content
          /\ UNCHANGED promotional_content
          /\ req' = ErrorResponse(r, 500, "no rows returned")
       \/ /\ UNCHANGED promotional_content
          /\ req' = ErrorResponse(Rejected(r), 500, "store error")
    /\ UNCHANGED <<now, user_sessions, user_roles, nextPromotionId, communities,
                   nextCommunityId, community_members, community_permissions,
                   posts, post_likes, comments, served,
                   client, others>>

\* case 'delete': .delete().eq("id", id); deleting no row is no error.
PromotionsDelete ==
    /\ req.fn = "manage-promotions" /\ req.pc = "act" /\ req.action = "delete"
    /\ LET r == Access(req, "delete", "promotional_content") IN
       \/ /\ promotional_content' =
                [i \in DOMAIN promotional_content \ {req.id} |->
                   promotional_content[i]]
          /\ req' = SuccessResponse(r, <<>>)
       \/ /\ UNCHANGED promotional_content
          /\ req' = ErrorResponse(Rejected(r), 500, "store error")
    /\ UNCHANGED <<now, user_sessions, user_roles, nextPromotionId, communities,
                   nextCommunityId, community_members, community_permissions,
                   posts, post_likes, comments, served,
                   client, others>>

\* PromotionsToggleActive as a flip of the stored flag, whatever was sent.
PromotionsToggleActiveFlip ==
    /\ req.fn = "manage-promotions" /\ req.pc = "act"
    /\ req.action = "toggle_active"
    /\ promotional_content' =
          [i \in DOMAIN promotional_content |->
             IF i = req.id
             THEN [promotional_content[i] EXCEPT !.is_active = ~@]
             ELSE promotional_content[i]]
    /\ req' = SuccessResponse(Access(req, "update", "promotional_content"),
                              <<>>)
    /\ UNCHANGED <<now, user_sessions, user_roles, nextPromotionId, communities,
                   nextCommunityId, community_members, community_permissions,
                   posts, post_likes, comments, served,
                   client, others>>

\* case 'toggle_active': .update({is_active}).eq("id", id); updating no row
\* is no error.
PromotionsToggleActive ==
    /\ req.fn = "manage-promotions" /\ req.pc = "act"
    /\ req.action = "toggle_active"
    /\ LET r == Access(req, "update", "promotional_content") IN
       \/ /\ promotional_content' =
                [i \in DOMAIN promotional_content |->
                   IF i = req.id
                   THEN [promotional_content[i] EXCEPT
                           !.is_active = req.is_active[1]]
                   ELSE promotional_content[i]]
          /\ req' = SuccessResponse(r, <<>>)
       \/ /\ UNCHANGED promotional_content
          /\ req' = ErrorResponse(Rejected(r), 500, "store error")
    /\ UNCHANGED <<now, user_sessions, user_roles, nextPromotionId, communities,
                   nextCommunityId, community_members, community_permissions,
                   posts, post_likes, comments, served,
                   client, others>>

ManagePromotions ==
    \/ PromotionsStart
    \/ PromotionsSession
    \/ PromotionsRoles
    \/ PromotionsList
    \/ PromotionsCreate
    \/ PromotionsUpdate
    \/ PromotionsDelete
    \/ PromotionsToggleActive

\* ------------------------------------------------------------ delete-post
DeletePostRequests ==
    {NewRequest("delete-post", "", t, i) : t \in MemberTokens, i \in Ids}

\* serve: the body is parsed and both fields' presence tested.
DeletePostStart ==
    /\ Idle /\ served < MaxRequests
    /\ \E r \in DeletePostRequests :
         req' = IF r.id = 0 \/ r.session_token = ""
                THEN ErrorResponse(r, 400, "Missing post_id or session_token")
                ELSE [r EXCEPT !.pc = "session"]
    /\ served' = served + 1
    /\ UNCHANGED <<now, store, client, others>>

\* rpc('validate_session')
DeletePostSession ==
    /\ req.fn = "delete-post" /\ req.pc = "session"
    /\ LET r == SessionAccess(req, "rpc", "validate_session")
           userId == validate_session(req.session_token)
       IN
       req' = IF userId = ""
              THEN ErrorResponse(r, 401, "Invalid or expired session")
              ELSE [r EXCEPT !.pc = "fetch", !.userId = userId]
    /\ UNCHANGED <<now, store, served, client, others>>

\* DeletePostFetch with the likes deleted before the ownership is verified.
DeletePostFetchEager ==
    /\ req.fn = "delete-post" /\ req.pc = "fetch"
    /\ LET r == Access(Access(req, "select", "posts"), "delete", "post_likes") IN
       req' = IF req.id \notin DOMAIN posts
              THEN ErrorResponse(r, 404, "Post not found")
              ELSE IF posts[req.id].user_id # req.userId
              THEN ErrorResponse(r, 403, "You can only delete your own posts")
              ELSE [r EXCEPT !.pc = "comments"]
    /\ post_likes' = {l \in post_likes : l.post_id # req.id}
    /\ UNCHANGED <<now, user_sessions, user_roles, promotional_content,
                   nextPromotionId, communities, nextCommunityId,
                   community_members, community_permissions, posts, comments,
                   served, client, others>>

\* DeletePostFetch without the ownership test.
DeletePostFetchNoOwner ==
    /\ req.fn = "delete-post" /\ req.pc = "fetch"
    /\ LET r == Access(req, "select", "posts") IN
       req' = IF req.id \notin DOMAIN posts
              THEN ErrorResponse(r, 404, "Post not found")
              ELSE [r EXCEPT !.pc = "likes"]
    /\ UNCHANGED <<now, store, served, client, others>>

\* The post is fetched and its ownership verified.
DeletePostFetch ==
    /\ req.fn = "delete-post" /\ req.pc = "fetch"
    /\ LET r == Access(req, "select", "posts") IN
       req' = IF req.id \notin DOMAIN posts
              THEN ErrorResponse(r, 404, "Post not found")
              ELSE IF posts[req.id].user_id # req.userId
              THEN ErrorResponse(r, 403, "You can only delete your own posts")
              ELSE [r EXCEPT !.pc = "likes"]
    /\ UNCHANGED <<now, store, served, client, others>>

\* await supabase.from("post_likes").delete().eq("post_id", post_id); the
\* result is not looked at.
DeletePostLikes ==
    /\ req.fn = "delete-post" /\ req.pc = "likes"
    /\ LET r == [Access(req, "delete", "post_likes") EXCEPT !.pc = "comments"] IN
       \/ /\ post_likes' = {l \in post_likes : l.post_id # req.id}
          /\ req' = r
       \/ /\ UNCHANGED post_likes
          /\ req' = Rejected(r)
    /\ UNCHANGED <<now, user_sessions, user_roles, promotional_content,
                   nextPromotionId, communities, nextCommunityId,
                   community_members, community_permissions, posts, comments,
                   served, client, others>>

\* await supabase.from("comments").delete().eq("post_id", post_id)
DeletePostComments ==
    /\ req.fn = "delete-post" /\ req.pc = "comments"
    /\ LET r == [Access(req, "delete", "comments") EXCEPT !.pc = "post"] IN
       \/ /\ comments' = {c \in comments : c.post_id # req.id}
          /\ req' = r
       \/ /\ UNCHANGED comments
          /\ req' = Rejected(r)
    /\ UNCHANGED <<now, user_sessions, user_roles, promotional_content,
                   nextPromotionId, communities, nextCommunityId,
                   community_members, community_permissions, posts, post_likes,
                   served, client, others>>

\* DeletePostPost inside a transaction: a rejected post deletion puts the
\* likes and comments back.
DeletePostPostRollback ==
    /\ req.fn = "delete-post" /\ req.pc = "post"
    /\ LET r == Access(req, "delete", "posts") IN
       \/ /\ posts' = [i \in DOMAIN posts \ {req.id} |-> posts[i]]
          /\ req' = SuccessResponse(r, <<>>)
          /\ UNCHANGED <<post_likes, comments>>
       \/ /\ UNCHANGED posts
          /\ post_likes' = req.before[5]
          /\ comments' = req.before[6]
          /\ req' = ErrorResponse(Rejected(r), 500, "store error")
    /\ UNCHANGED <<now, user_sessions, user_roles, promotional_content,
                   nextPromotionId, communities, nextCommunityId,
                   community_members, community_permissions, served,
                   client, others>>

\* The post is deleted, or the store rejects the delete.
DeletePostPost ==
    /\ req.fn = "delete-post" /\ req.pc = "post"
    /\ LET r == Access(req, "delete", "posts") IN
       \/ /\ posts' = [i \in DOMAIN posts \ {req.id} |-> posts[i]]
          /\ req' = SuccessResponse(r, <<>>)
       \/ /\ UNCHANGED posts
          /\ req' = ErrorResponse(Rejected(r), 500, "store error")
    /\ UNCHANGED <<now, user_sessions, user_roles, promotional_content,
                   nextPromotionId, communities, nextCommunityId,
                   community_members, community_permissions, post_likes,
                   comments, served,
                   client, others>>

DeletePost ==
    \/ DeletePostStart
    \/ DeletePostSession
    \/ DeletePostFetch
    \/ DeletePostLikes
    \/ DeletePostComments
    \/ DeletePostPost

\* ------------------------------------------------------- manage-community
CommunityActions == {"create", "update", "delete", "join", "leave"}

\* The requests manage-community is sent; the token travels in the header
\* x-session-token.  An update either omits the name (""), which leaves the
\* column as it is, or carries a padded one.
CommunityRequests ==
    LET base(a, t, i) == NewRequest("manage-community", a, t, i) IN
    UNION {
      {base("frobnicate", t, 0) : t \in MemberTokens},
      {[base("create", t, 0) EXCEPT !.name = n] :
          t \in MemberTokens, n \in {"", "  ", " club "}},
      {[base("update", t, i) EXCEPT !.name = n] :
          t \in MemberTokens, i \in Ids, n \in {"", " chess "}},
      {base(a, t, i) : a \in {"delete", "join", "leave"},
                       t \in MemberTokens, i \in Ids}
    }

\* Deno.serve: the header token's presence is tested.
CommunityStart ==
    /\ Idle /\ served < MaxRequests
    /\ \E r \in CommunityRequests :
         /\ r.action = "create" => nextCommunityId <= MaxId
         /\ req' = IF r.session_token = ""
                   THEN ErrorResponse(r, 401, "No session token provided")
                   ELSE [r EXCEPT !.pc = "session"]
    /\ served' = served + 1
    /\ UNCHANGED <<now, store, client, others>>

\* The input tests of each action that precede its first store access.
CommunityInputError(r) ==
    CASE r.action = "create" ->
           IF Trim(r.name) = "" THEN "Community name is required" ELSE ""
      [] r.action \in {"update", "delete", "join", "leave"} ->
           IF r.id = 0 THEN "Community ID is required" ELSE ""
      [] OTHER -> "Invalid action"

\* rpc("validate_session"); then the body is parsed and the action's input
\* tested.
CommunitySession ==
    /\ req.fn = "manage-community" /\ req.pc = "session"
    /\ LET r == SessionAccess(req, "rpc", "validate_session")
           userId == validate_session(req.session_token)
       IN
       req' = IF userId = ""
              THEN ErrorResponse(r, 401, "Invalid or expired session")
              ELSE IF CommunityInputError(r) # ""
              THEN ErrorResponse(r, 400, CommunityInputError(r))
              ELSE [r EXCEPT !.userId = userId,
                             !.pc = IF r.action \in {"update", "delete"}
                                    THEN "owner" ELSE "act"]
    /\ UNCHANGED <<now, store, served, client, others>>

\* action create: the community is inserted.
CommunityCreate ==
    /\ req.fn = "manage-community" /\ req.pc = "act" /\ req.action = "create"
    /\ LET r == Access(req, "insert", "communities")
           row == [name |-> Trim(req.name), created_by |-> req.userId]
       IN
       \/ /\ communities' =
                [i \in DOMAIN communities \cup {nextCommunityId} |->
                   IF i = nextCommunityId THEN row ELSE communities[i]]
          /\ nextCommunityId' = nextCommunityId + 1
          /\ req' = [r EXCEPT !.pc = "member", !.id = nextCommunityId,
                              !.data = <<nextCommunityId, row>>]
       \/ /\ UNCHANGED <<communities, nextCommunityId>>
          /\ req' = ErrorResponse(Rejected(r), 400, "store error")
    /\ UNCHANGED <<now, user_sessions, user_roles, promotional_content,
                   nextPromotionId, community_members, community_permissions,
                   posts, post_likes, comments, served,
                   client, others>>

\* action create: the creator is joined as admin; a rejected insert is only
\* logged.
CommunityAddMember ==
    /\ req.fn = "manage-community" /\ req.pc = "member"
    /\ LET r == Access(req, "insert", "community_members") IN
       \/ /\ community_members' = community_members \cup
               {[community_id |-> req.id, user_id |-> req.userId,
                 role |-> "admin"]}
          /\ req' = SuccessResponse(r, req.data)
       \/ /\ UNCHANGED community_members
          /\ req' = SuccessResponse(Rejected(r), req.data)
    /\ UNCHANGED <<now, user_sessions, user_roles, promotional_content,
                   nextPromotionId, communities, nextCommunityId,
                   community_permissions, posts, post_likes, comments, served,
                   client, others>>

\* isOwner without the comparison of created_by.
isOwnerExists(community_id, userId) == community_id \in DOMAIN communities

\* actions update and delete: the requester must be the community's creator.
isOwner(community_id, userId) ==
    /\ community_id \in DOMAIN communities
    /\ communities[community_id].created_by = userId

\* actions update and delete: "Verify ownership".
CommunityOwner ==
    /\ req.fn = "manage-community" /\ req.pc = "owner"
    /\ LET r == Access(req, "select", "communities") IN
       req' = IF ~isOwner(req.id, req.userId)
              THEN ErrorResponse(r, 403,
                     IF req.action = "update"
                     THEN "Not authorized to update this community"
                     ELSE "Not authorized to delete this community")
              ELSE [r EXCEPT !.pc = "act"]
    /\ UNCHANGED <<now, store, served, client, others>>

\* action update: a name that is absent is left out of the statement.
CommunityUpdate ==
    /\ req.fn = "manage-community" /\ req.pc = "act" /\ req.action = "update"
    /\ LET r == Access(req, "update", "communities") IN
       \/ /\ communities' =
                [i \in DOMAIN communities |->
                   IF i = req.id /\ req.name # ""
                   THEN [communities[i] EXCEPT !.name = Trim(req.name)]
                   ELSE communities[i]]
          /\ req' = SuccessResponse(r, <<>>)
       \/ /\ UNCHANGED communities
          /\ req' = ErrorResponse(Rejected(r), 400, "store error")
    /\ UNCHANGED <<now, user_sessions, user_roles, promotional_content,
                   nextPromotionId, nextCommunityId, community_members,
                   community_permissions, posts, post_likes, comments, served,
                   client, others>>

\* action delete
CommunityDelete ==
    /\ req.fn = "manage-community" /\ req.pc = "act" /\ req.action = "delete"
    /\ LET r == Access(req, "delete", "communities") IN
       \/ /\ communities' =
                [i \in DOMAIN communities \ {req.id} |-> communities[i]]
          /\ req' = SuccessResponse(r, <<>>)
       \/ /\ UNCHANGED communities
          /\ req' = ErrorResponse(Rejected(r), 400, "store error")
    /\ UNCHANGED <<now, user_sessions, user_roles, promotional_content,
                   nextPromotionId, nextCommunityId, community_members,
                   community_permissions, posts, post_likes, comments, served,
                   client, others>>

\* action join
CommunityJoin ==
    /\ req.fn = "manage-community" /\ req.pc = "act" /\ req.action = "join"
    /\ LET r == Access(req, "insert", "community_members") IN
       \/ /\ community_members' = community_members \cup
               {[community_id |-> req.id, user_id |-> req.userId,
                 role |-> "member"]}
          /\ req' = SuccessResponse(r, <<>>)
       \/ /\ UNCHANGED community_members
          /\ req' = ErrorResponse(Rejected(r), 400, "store error")
    /\ UNCHANGED <<now, user_sessions, user_roles, promotional_content,
                   nextPromotionId, communities, nextCommunityId,
                   community_permissions, posts, post_likes, comments, served,
                   client, others>>

\* CommunityLeave without the filter on user_id.
CommunityLeaveEveryone ==
    /\ req.fn = "manage-community" /\ req.pc = "act" /\ req.action = "leave"
    /\ community_members' =
          {m \in community_members : m.community_id # req.id}
    /\ req' = SuccessResponse(Access(req, "delete", "community_members"), <<>>)
    /\ UNCHANGED <<now, user_sessions, user_roles, promotional_content,
                   nextPromotionId, communities, nextCommunityId,
                   community_permissions, posts, post_likes, comments, served,
                   client, others>>

\* action leave
CommunityLeave ==
    /\ req.fn = "manage-community" /\ req.pc = "act" /\ req.action = "leave"
    /\ LET r == Access(req, "delete", "community_members") IN
       \/ /\ community_members' =
               {m \in community_members :
                  ~(m.community_id = req.id /\ m.user_id = req.userId)}
          /\ req' = SuccessResponse(r, <<>>)
       \/ /\ UNCHANGED community_members
          /\ req' = ErrorResponse(Rejected(r), 400, "store error")
    /\ UNCHANGED <<now, user_sessions, user_roles, promotional_content,
                   nextPromotionId, communities, nextCommunityId,
                   community_permissions, posts, post_likes, comments, served,
                   client, others>>

ManageCommunity ==
    \/ CommunityStart
    \/ CommunitySession
    \/ CommunityCreate
    \/ CommunityAddMember
    \/ CommunityOwner
    \/ CommunityUpdate
    \/ CommunityDelete
    \/ CommunityJoin
    \/ CommunityLeave

\* ------------------------------------------------ useCommunityPermissions
\* The hook's props (the signed-in user, "" for none, and the community id,
\* 0 for undefined), the position of its fetchPermissions, and its React
\* state.
NoHook ==
    [user |-> "", communityId |-> 0, pc |-> "unmounted",
     creatorStatus |-> FALSE, isCreator |-> FALSE, permissions |-> {},
     allPermissions |-> {}, membersWithPermissions |-> {}, loading |-> TRUE]

\* The users that sign in on the client.
ClientUsers == {"", "U1", "U2", "U3"}

\* fetchPermissions up to its first await: without a community id it only
\* clears loading.
StartFetch(h) ==
    IF h.communityId = 0
    THEN [h EXCEPT !.loading = FALSE, !.pc = "ready"]
    ELSE [h EXCEPT !.pc = "community"]

\* The hook is rendered with new props: the effect runs fetchPermissions.
\* A client names only ids the store has generated.
HookRender ==
    /\ hook.pc \in {"unmounted", "ready"}
    /\ \E u \in ClientUsers, c \in 0..(nextCommunityId - 1) :
         /\ hook.pc = "ready" => <<u, c>> # <<hook.user, hook.communityId>>
         /\ hook' = StartFetch([hook EXCEPT !.user = u, !.communityId = c])
    /\ UNCHANGED <<now, store, served, req, others>>

\* refresh: fetchPermissions is called again.
HookRefresh ==
    /\ hook.pc = "ready"
    /\ hook' = StartFetch(hook)
    /\ UNCHANGED <<now, store, served, req, others>>

\* community?.created_by === user?.id, where a missing community and a
\* missing user both give undefined.
creatorStatusOf(communityId, user) ==
    (IF communityId \in DOMAIN communities
     THEN communities[communityId].created_by ELSE "") = user

\* The community is fetched and isCreator set.
HookFetchCommunity ==
    /\ hook.pc = "community"
    /\ LET cs == creatorStatusOf(hook.communityId, hook.user) IN
       hook' = [hook EXCEPT
                  !.creatorStatus = cs,
                  !.isCreator = cs,
                  !.pc = IF hook.user # "" THEN "permissions"
                         ELSE IF cs THEN "allPermissions" ELSE "ready",
                  !.loading = IF hook.user = "" /\ ~cs THEN FALSE ELSE @]
    /\ UNCHANGED <<now, store, served, req, others>>

\* .from('community_permissions').select('permission')
\*   .eq('community_id', communityId).eq('user_id', user.id)
permissionsOf(user, communityId) ==
    {p.permission : p \in {q \in community_permissions :
                             q.community_id = communityId /\ q.user_id = user}}

\* The user's permission rows are fetched.
HookFetchPermissions ==
    /\ hook.pc = "permissions"
    /\ hook' = [hook EXCEPT
                  !.permissions = permissionsOf(hook.user, hook.communityId),
                  !.pc = IF hook.creatorStatus THEN "allPermissions"
                         ELSE "ready",
                  !.loading = IF hook.creatorStatus THEN @ ELSE FALSE]
    /\ UNCHANGED <<now, store, served, req, others>>

\* For the creator, every permission row of the community is fetched.
HookFetchAllPermissions ==
    /\ hook.pc = "allPermissions"
    /\ hook' = [hook EXCEPT
                  !.allPermissions =
                      {p \in community_permissions :
                         p.community_id = hook.communityId},
                  !.pc = "members"]
    /\ UNCHANGED <<now, store, served, req, others>>

\* For the creator, the members are fetched and joined with their rows.
HookFetchMembers ==
    /\ hook.pc = "members"
    /\ hook' = [hook EXCEPT
                  !.membersWithPermissions =
                      {[user_id |-> m.user_id, role |-> m.role,
                        permissions |->
                          {p.permission :
                             p \in {q \in hook.allPermissions :
                                      q.user_id = m.user_id}}] :
                         m \in {x \in community_members :
                                  x.community_id = hook.communityId}},
                  !.pc = "ready",
                  !.loading = FALSE]
    /\ UNCHANGED <<now, store, served, req, others>>

\* hasPermission without the creator's override.
hasPermissionStoredOnly(permission) == permission \in hook.permissions

\* hasPermission: creators have all permissions.
hasPermission(permission) ==
    IF hook.isCreator THEN TRUE ELSE permission \in hook.permissions

canEdit == hasPermission("edit_community")

UseCommunityPermissions ==
    \/ HookRender
    \/ HookRefresh
    \/ HookFetchCommunity
    \/ HookFetchPermissions
    \/ HookFetchAllPermissions
    \/ HookFetchMembers

\* ------------------------------------------- the rest of the application
\* The components and database functions below start from these states.

\* No grantPermission / revokePermission call is under way.
\* response is history: the handler's answer to the call, read by no code.
NoGrant ==
    [pc |-> "idle", action |-> "", user |-> "", communityId |-> 0,
     target_user_id |-> "", permission |-> "", result |-> Undefined,
     response |-> <<>>]

\* useAdminAuthSupabase before its effect has run, with nothing under the
\* key admin_session.
NoAdmin ==
    [stored |-> <<>>, pc |-> "unmounted", user |-> "", roles |-> {},
     loading |-> TRUE, validatedUserId |-> ""]

\* A PollsTab that is not open.
NoView ==
    [user |-> "", communityId |-> 0, isMember |-> FALSE, pc |-> "closed",
     pollIds |-> {}, options |-> {}, user_vote |-> <<>>, poll |-> 0,
     optionId |-> 0]

\* CreatePollDialog's initial state.
NoDialog ==
    [user |-> "", question |-> "", options |-> <<"", "">>, pc |-> "form",
     poll |-> 0, validOptions |-> <<>>]

\* No transaction is inserting into reports.
NoTx == [pc |-> "idle", row |-> <<>>, report_count |-> 0, hides |-> FALSE]

\* cleanup_old_messages has not been called.
NoCleanup == [calls |-> 0, deleted_count |-> Undefined]

\* ------------------------------------- grantPermission, revokePermission
\* The session_token of samrambhak_auth in localStorage: none, or a token
\* issued to the signed-in user, which may have ended since.
storedTokens(user) ==
    {""} \cup {t \in DOMAIN user_sessions : user_sessions[t].user_id = user}

\* grantPermission(userId, permission) and revokePermission(userId,
\* permission) up to their await: without a user or a community id they
\* return false; otherwise manage-community is invoked with the action
\* grant_permission, respectively revoke_permission, and the handler tests
\* the header token's presence.
GrantInvoke ==
    /\ hook.pc = "ready" /\ grant.pc \in {"idle", "returned"}
    /\ Idle /\ served < MaxRequests
    /\ \E a \in {"grant_permission", "revoke_permission"},
          u \in {"U2", "U3"}, p \in CommunityPermissionType,
          t \in storedTokens(hook.user) :
         LET g == [NoGrant EXCEPT !.action = a, !.user = hook.user,
                                  !.communityId = hook.communityId,
                                  !.target_user_id = u, !.permission = p]
             r == NewRequest("manage-community", a, t, hook.communityId)
         IN
         IF hook.user = "" \/ hook.communityId = 0
         THEN /\ grant' = [g EXCEPT !.result = <<FALSE>>, !.pc = "returned"]
              /\ UNCHANGED <<req, served>>
         ELSE /\ grant' = [g EXCEPT !.pc = "invoked"]
              /\ req' = IF t = ""
                        THEN ErrorResponse(r, 401, "No session token provided")
                        ELSE [r EXCEPT !.pc = "session"]
              /\ served' = served + 1
    /\ UNCHANGED <<now, store, hook, admin, polls, views, dialog, reports,
                   is_hidden, txs, messages, conversations, cleanup>>

\* supabase.functions.invoke returns: a response outside 2xx is an error and
\* the call returns false; otherwise fetchPermissions runs and, when it has
\* ended, the call returns true.
GrantReturn ==
    /\ grant.pc \in {"invoked", "refetch"}
    /\ IF grant.pc = "invoked"
       THEN /\ req.pc = "done"
            /\ req' = NoRequest
            /\ IF req.status \in 200..299 /\ req.error = ""
               THEN /\ hook.pc = "ready"
                    /\ hook' = StartFetch(hook)
                    /\ grant' = [grant EXCEPT !.pc = "refetch",
                                              !.response = <<req>>]
               ELSE /\ grant' = [grant EXCEPT !.pc = "returned",
                                              !.result = <<FALSE>>,
                                              !.response = <<req>>]
                    /\ UNCHANGED hook
       ELSE /\ hook.pc = "ready"
            /\ grant' = [grant EXCEPT !.pc = "returned", !.result = <<TRUE>>]
            /\ UNCHANGED <<req, hook>>
    /\ UNCHANGED <<now, store, served, admin, polls, views, dialog, reports,
                   is_hidden, txs, messages, conversations, cleanup>>

\* --------------------------------------------------- editing from a page
\* The user of a page that shows the hook's canEdit sends manage-community
\* an update of the hook's community under a stored token; the handler tests
\* the header token's presence.
EditorUpdate ==
    /\ hook.pc = "ready" /\ ~hook.loading /\ hook.communityId # 0
    /\ Idle /\ served < MaxRequests
    /\ \E t \in storedTokens(hook.user), n \in {"", " chess "} :
         LET r == [NewRequest("manage-community", "update", t,
                              hook.communityId) EXCEPT !.name = n]
         IN
         req' = IF t = ""
                THEN ErrorResponse(r, 401, "No session token provided")
                ELSE [r EXCEPT !.pc = "session"]
    /\ served' = served + 1
    /\ UNCHANGED <<now, store, client, others>>

\* -------------------------------------------------- PollsTab and PollCard
\* The users of the poll views: "" is a visitor who is not signed in.
Voters == {"", "U2", "U3"}

\* .from('community_polls').select('*').eq('community_id', communityId)
pollsOf(communityId) ==
    {i \in 1..Len(community_polls) :
       community_polls[i].community_id = communityId}

\* pollVotes: the rows of votesData of one poll, in the order of the table.
pollVotes(poll_id) ==
    SelectSeq(community_poll_votes, LAMBDA x : x.poll_id = poll_id)

\* userVote: the option of the user's first vote among the fetched votes, or
\* null (0); null for a visitor.
userVote(user, poll_id) ==
    LET mine == SelectSeq(pollVotes(poll_id), LAMBDA x : x.user_id = user) IN
    IF user # "" /\ mine # <<>> THEN mine[1].option_id ELSE 0

\* vote_count of an option, as fetchPolls computes it.
vote_count(poll_id, option_id) ==
    Len(SelectSeq(pollVotes(poll_id), LAMBDA x : x.option_id = option_id))

\* A PollsTab is opened on a community by a visitor or a signed-in user; its
\* effect starts fetchPolls.
PollsOpen(v) ==
    /\ views[v].pc = "closed"
    /\ \E u \in Voters, m \in BOOLEAN, c \in DOMAIN communities :
         views' = [views EXCEPT ![v] =
                     [NoView EXCEPT !.user = u, !.communityId = c,
                                    !.isMember = m, !.pc = "polls"]]
    /\ UNCHANGED <<now, store, served, req, hook, grant, admin, polls, dialog,
                   reports, is_hidden, txs, messages, conversations, cleanup>>

\* fetchPolls: the community's polls are read; without any, the list is
\* empty and the fetch ends.
FetchPollsPolls(v) ==
    /\ views[v].pc = "polls"
    /\ LET ids == pollsOf(views[v].communityId) IN
       views' = [views EXCEPT ![v].pollIds = ids,
                              ![v].options = {},
                              ![v].user_vote = [p \in ids |-> 0],
                              ![v].pc = IF ids = {} THEN "ready" ELSE "options"]
    /\ UNCHANGED <<now, store, served, req, hook, grant, admin, polls, dialog,
                   reports, is_hidden, txs, messages, conversations, cleanup>>

\* fetchPolls: the options of these polls are read.
FetchPollsOptions(v) ==
    /\ views[v].pc = "options"
    /\ views' = [views EXCEPT
                   ![v].options = {o \in community_poll_options :
                                     o.poll_id \in views[v].pollIds},
                   ![v].pc = "votes"]
    /\ UNCHANGED <<now, store, served, req, hook, grant, admin, polls, dialog,
                   reports, is_hidden, txs, messages, conversations, cleanup>>

\* fetchPolls: the votes of these polls are read and every poll gets its
\* user_vote (the creators' profiles, read next, change nothing here).
FetchPollsVotes(v) ==
    /\ views[v].pc = "votes"
    /\ views' = [views EXCEPT
                   ![v].user_vote = [p \in views[v].pollIds |->
                                       userVote(views[v].user, p)],
                   ![v].pc = "ready"]
    /\ UNCHANGED <<now, store, served, req, hook, grant, admin, polls, dialog,
                   reports, is_hidden, txs, messages, conversations, cleanup>>

\* PollCard.handleVote up to its await: a visitor, a non-member and a user
\* whose card shows a vote get a toast and nothing else.
HandleVote(v) ==
    /\ views[v].pc = "ready"
    /\ Len(community_poll_votes) < MaxVotes
    /\ \E o \in views[v].options :
         /\ views[v].user # ""
         /\ views[v].isMember
         /\ views[v].user_vote[o.poll_id] = 0
         /\ views' = [views EXCEPT ![v].poll = o.poll_id, ![v].optionId = o.n,
                                   ![v].pc = "insert"]
    /\ UNCHANGED <<now, store, served, req, hook, grant, admin, polls, dialog,
                   reports, is_hidden, txs, messages, conversations, cleanup>>

\* The insert into community_poll_votes returns: on success onUpdate runs
\* fetchPolls again, on an error the card stays as it was.
VoteInsert(v) ==
    /\ views[v].pc = "insert"
    /\ \/ /\ community_poll_votes' =
               Append(community_poll_votes,
                      [poll_id |-> views[v].poll,
                       option_id |-> views[v].optionId,
                       user_id |-> views[v].user])
          /\ views' = [views EXCEPT ![v].pc = "polls"]
       \/ /\ UNCHANGED community_poll_votes
          /\ views' = [views EXCEPT ![v].pc = "ready"]
    /\ UNCHANGED <<now, store, served, req, hook, grant, admin,
                   community_polls, community_poll_options, dialog, reports,
                   is_hidden, txs, messages, conversations, cleanup>>

PollsTab ==
    \/ \E v \in DOMAIN views : PollsOpen(v)
    \/ \E v \in DOMAIN views : FetchPollsPolls(v)
    \/ \E v \in DOMAIN views : FetchPollsOptions(v)
    \/ \E v \in DOMAIN views : FetchPollsVotes(v)
    \/ \E v \in DOMAIN views : HandleVote(v)
    \/ \E v \in DOMAIN views : VoteInsert(v)

\* ------------------------------------------------------- CreatePollDialog
\* What the form may hold when it is submitted: a question and two or three
\* option fields, some of them empty, blank or padded.
PollQuestions == {"", "  ", "Tea?"}
PollOptionTexts == {"", "  ", " a ", "b"}
PollOptionLists ==
    {<<x, y>> : x \in PollOptionTexts, y \in PollOptionTexts} \cup
    {<<x, y, z>> : x \in PollOptionTexts, y \in PollOptionTexts,
                   z \in {"", "b"}}

\* options.filter(o => o.trim())
validOptionsOf(options) == SelectSeq(options, LAMBDA o : Trim(o) # "")

\* The empty form is filled in, by a visitor or by a signed-in user.
DialogEdit ==
    /\ dialog.pc = "form"
    /\ dialog.question = NoDialog.question
    /\ dialog.options = NoDialog.options
    /\ \E u \in {"", "U2"}, q \in PollQuestions, os \in PollOptionLists :
         /\ <<q, os>> # <<dialog.question, dialog.options>>
         /\ dialog' = [NoDialog EXCEPT !.user = u, !.question = q,
                                       !.options = os]
    /\ UNCHANGED <<now, store, served, req, client, grant, admin, polls,
                   views, reports, is_hidden, txs, messages, conversations,
                   cleanup>>

\* handleSubmit up to its first await: a visitor, a blank question and fewer
\* than two non-blank options get a toast and nothing else.
HandleSubmit ==
    /\ dialog.pc = "form"
    /\ Len(community_polls) < MaxPolls
    /\ dialog.user # ""
    /\ Trim(dialog.question) # ""
    /\ Len(validOptionsOf(dialog.options)) >= 2
    /\ dialog' = [dialog EXCEPT !.validOptions = validOptionsOf(dialog.options),
                                !.pc = "poll"]
    /\ UNCHANGED <<now, store, served, req, client, grant, admin, polls,
                   views, reports, is_hidden, txs, messages, conversations,
                   cleanup>>

\* The insert into community_polls returns the new row; on an error the
\* dialog stays open with its form.
DialogInsertPoll ==
    /\ dialog.pc = "poll"
    /\ \/ /\ community_polls' =
               Append(community_polls,
                      [community_id |-> 1, created_by |-> dialog.user,
                       question |-> Trim(dialog.question)])
          /\ dialog' = [dialog EXCEPT !.poll = Len(community_polls) + 1,
                                      !.pc = "options"]
       \/ /\ UNCHANGED community_polls
          /\ dialog' = [dialog EXCEPT !.pc = "form"]
    /\ UNCHANGED <<now, store, served, req, client, grant, admin,
                   community_poll_options, community_poll_votes, views,
                   reports, is_hidden, txs, messages, conversations, cleanup>>

\* The insert of the options, one statement for all rows, returns: on
\* success the form is reset, on an error the dialog stays open.
DialogInsertOptions ==
    /\ dialog.pc = "options"
    /\ \/ /\ community_poll_options' = community_poll_options \cup
               {[poll_id |-> dialog.poll, n |-> n,
                 option_text |-> Trim(dialog.validOptions[n])] :
                  n \in 1..Len(dialog.validOptions)}
          /\ dialog' = [NoDialog EXCEPT !.user = dialog.user]
       \/ /\ UNCHANGED community_poll_options
          /\ dialog' = [dialog EXCEPT !.pc = "form"]
    /\ UNCHANGED <<now, store, served, req, client, grant, admin,
                   community_polls, community_poll_votes, views, reports,
                   is_hidden, txs, messages, conversations, cleanup>>

CreatePollDialog ==
    \/ DialogEdit
    \/ HandleSubmit
    \/ DialogInsertPoll
    \/ DialogInsertOptions

\* --------------------------------------------------- useAdminAuthSupabase
\* What localStorage may hold under admin_session when the hook mounts: the
\* entry the login page wrote, possibly for a session that has ended since,
\* or any text the browser's user put there.  corrupt is text JSON.parse
\* throws on; user "" and session_token "" are missing fields.
AdminStored ==
    {[corrupt |-> TRUE, user |-> "", session_token |-> ""]} \cup
    {[corrupt |-> FALSE, user |-> u, session_token |-> t] :
       u \in {"", "U1", "U2", "U3", "U4"},
       t \in {"", "T1", "T3", "T4", "TI", "TX"}}

\* localStorage.removeItem(ADMIN_STORAGE_KEY); setUser(null); setRoles([])
AdminCleared(a) ==
    [a EXCEPT !.stored = <<>>, !.user = "", !.roles = {}]

\* Something is stored under admin_session before the admin pages are opened.
AdminStorage ==
    /\ admin.pc = "unmounted" /\ admin.stored = <<>>
    /\ \E s \in AdminStored : admin' = [admin EXCEPT !.stored = <<s>>]
    /\ UNCHANGED <<now, store, served, req, hook, grant, polls, views, dialog,
                   reports, is_hidden, txs, messages, conversations, cleanup>>

\* loadAdminSession up to its first await: nothing stored, or an entry
\* without user or token, ends the load as it is; text that does not parse is
\* removed by the catch.
AdminLoad ==
    /\ admin.pc = "unmounted"
    /\ admin' =
         IF admin.stored = <<>>
         THEN [admin EXCEPT !.loading = FALSE, !.pc = "loaded"]
         ELSE IF admin.stored[1].corrupt
         THEN [admin EXCEPT !.stored = <<>>, !.loading = FALSE,
                            !.pc = "loaded"]
         ELSE IF admin.stored[1].user = ""
                 \/ admin.stored[1].session_token = ""
         THEN [admin EXCEPT !.loading = FALSE, !.pc = "loaded"]
         ELSE [admin EXCEPT !.pc = "validate"]
    /\ UNCHANGED <<now, store, served, req, hook, grant, polls, views, dialog,
                   reports, is_hidden, txs, messages, conversations, cleanup>>

\* rpc('validate_session') with the stored token returns; the call itself
\* may fail (validateError).
AdminValidate ==
    /\ admin.pc = "validate"
    /\ LET validatedUserId == validate_session(admin.stored[1].session_token)
       IN
       \/ admin' =
            IF validatedUserId = ""
            THEN [AdminCleared(admin) EXCEPT !.loading = FALSE,
                                             !.pc = "loaded"]
            ELSE [admin EXCEPT !.validatedUserId = validatedUserId,
                               !.pc = "roles"]
       \/ admin' = [AdminCleared(admin) EXCEPT !.loading = FALSE,
                                               !.pc = "loaded"]
    /\ UNCHANGED <<now, store, served, req, hook, grant, polls, views, dialog,
                   reports, is_hidden, txs, messages, conversations, cleanup>>

\* The role rows of storedUser.id are read; the read itself may fail
\* (rolesError).
AdminRoles ==
    /\ admin.pc = "roles"
    /\ LET currentRoles == rolesOf(admin.stored[1].user) IN
       \/ admin' =
            IF currentRoles = {}
            THEN [AdminCleared(admin) EXCEPT !.loading = FALSE,
                                             !.pc = "loaded"]
            ELSE [admin EXCEPT !.user = admin.stored[1].user,
                               !.roles = currentRoles,
                               !.loading = FALSE, !.pc = "loaded"]
       \/ admin' = [AdminCleared(admin) EXCEPT !.loading = FALSE,
                                               !.pc = "loaded"]
    /\ UNCHANGED <<now, store, served, req, hook, grant, polls, views, dialog,
                   reports, is_hidden, txs, messages, conversations, cleanup>>

\* signOut
AdminSignOut ==
    /\ admin.pc = "loaded" /\ admin.stored # <<>>
    /\ admin' = AdminCleared(admin)
    /\ UNCHANGED <<now, store, served, req, hook, grant, polls, views, dialog,
                   reports, is_hidden, txs, messages, conversations, cleanup>>

\* The page is loaded again: the hook starts from its initial state over
\* what localStorage holds.
AdminReload ==
    /\ admin.pc = "loaded" /\ admin.stored # <<>>
    /\ admin' = [NoAdmin EXCEPT !.stored = admin.stored]
    /\ UNCHANGED <<now, store, served, req, hook, grant, polls, views, dialog,
                   reports, is_hidden, txs, messages, conversations, cleanup>>

\* isAdmin: roles.length > 0
isAdmin == admin.roles # {}

UseAdminAuthSupabase ==
    \/ AdminStorage
    \/ AdminLoad
    \/ AdminValidate
    \/ AdminRoles
    \/ AdminSignOut
    \/ AdminReload

\* ------------------------------------------ auto_hide_post_on_reports
\* A transaction inserts one row into reports, the AFTER INSERT trigger
\* auto_hide_post_trigger runs inside it, and it commits.  Transactions run
\* at the database's default isolation, read committed: a statement sees
\* the rows committed before it started and the rows of its own
\* transaction.  update_post_report_count_trigger, which fires after this
\* trigger, writes only posts.report_count and is left out.

\* The rows of reports a statement of transaction t sees.
visibleReports(t) ==
    reports \cup (IF txs[t].pc = "idle" THEN {} ELSE {txs[t].row[1]})

\* SELECT COUNT(*) FROM reports WHERE reported_id = NEW.reported_id AND
\* reported_type = 'post', over a set of rows.
postReports(rows, reported_id) ==
    Cardinality({r \in rows : r.reported_id = reported_id
                              /\ r.reported_type = "post"})

\* IF report_count >= 10
hides(report_count) == report_count >= HideThreshold

\* The id a new row of reports gets.
nextReportId ==
    Cardinality(reports)
      + Cardinality({t \in DOMAIN txs : txs[t].pc # "idle"}) + 1

\* INSERT INTO reports, of a report on a post or on a comment.
ReportInsert(t) ==
    /\ txs[t].pc = "idle"
    /\ nextReportId <= MaxReports
    /\ \E ty \in {"post", "comment"}, id \in DOMAIN posts :
         txs' = [txs EXCEPT ![t] =
                   [NoTx EXCEPT !.pc = "trigger",
                                !.row = <<[id |-> nextReportId,
                                           reported_type |-> ty,
                                           reported_id |-> id]>>]]
    /\ UNCHANGED <<now, store, served, req, client, grant, admin, polls,
                   views, dialog, reports, is_hidden, messages, conversations,
                   cleanup>>

\* auto_hide_post_on_reports for the inserted row: the post's reports are
\* counted and, from the threshold on, the post's is_hidden is set (a write
\* of this transaction, visible to others when it commits).
AutoHidePostOnReports(t) ==
    /\ txs[t].pc = "trigger"
    /\ LET new == txs[t].row[1]
           report_count == postReports(visibleReports(t), new.reported_id)
       IN
       txs' = [txs EXCEPT
                 ![t].pc = "commit",
                 ![t].report_count =
                    IF new.reported_type = "post" THEN report_count ELSE 0,
                 ![t].hides = /\ new.reported_type = "post"
                              /\ hides(report_count)
                              /\ new.reported_id \in DOMAIN posts
                              /\ new.reported_id \notin is_hidden]
    /\ UNCHANGED <<now, store, served, req, client, grant, admin, polls,
                   views, dialog, reports, is_hidden, messages, conversations,
                   cleanup>>

\* COMMIT: the transaction's row and its write to posts become visible.
ReportCommit(t) ==
    /\ txs[t].pc = "commit"
    /\ reports' = reports \cup {txs[t].row[1]}
    /\ is_hidden' = is_hidden \cup
                      (IF txs[t].hides THEN {txs[t].row[1].reported_id}
                       ELSE {})
    /\ txs' = [txs EXCEPT ![t] = NoTx]
    /\ UNCHANGED <<now, store, served, req, client, grant, admin, polls,
                   views, dialog, messages, conversations, cleanup>>

Reports ==
    \/ \E t \in DOMAIN txs : ReportInsert(t)
    \/ \E t \in DOMAIN txs : AutoHidePostOnReports(t)
    \/ \E t \in DOMAIN txs : ReportCommit(t)

\* --------------------------------------------------- cleanup_old_messages
\* The clock counts days; created_at of a message is the day it was sent.

\* created_at <= now() - interval '7 days', in place of <.
olderThanRetentionOrEqual(created_at) == created_at <= now - RetentionDays

\* created_at < now() - interval '7 days'
olderThanRetention(created_at) == created_at < now - RetentionDays

\* The messages and conversations the store starts with: two conversations
\* with messages around the retention limit and one without a message.
SeedMessages ==
    {[id |-> 1, conversation_id |-> 1, created_at |-> 0 - 8],
     [id |-> 2, conversation_id |-> 1, created_at |-> 0 - 7],
     [id |-> 3, conversation_id |-> 2, created_at |-> 0 - 8],
     [id |-> 4, conversation_id |-> 2, created_at |-> 0 - 9]}
SeedConversations == {1, 2, 3}

\* The id of a new row: above the ids in use and above those of the rows
\* the store started with.
nextId(used, seeds) ==
    LET taken == used \cup 1..Cardinality(seeds) IN
    CHOOSE i \in 1..(Cardinality(taken) + 1) :
      /\ i \notin taken
      /\ \A j \in taken : j < i

\* A message is sent in a conversation.
SendMessage ==
    /\ \E id \in 1..MaxMessages, c \in conversations :
         /\ id = nextId({m.id : m \in messages}, SeedMessages)
         /\ messages' = messages \cup
              {[id |-> id, conversation_id |-> c, created_at |-> now]}
    /\ UNCHANGED <<now, store, served, req, client, grant, admin, polls,
                   views, dialog, reports, is_hidden, txs, conversations,
                   cleanup>>

\* A conversation is started; its first message has yet to be sent.
StartConversation ==
    /\ \E c \in 1..MaxConversations :
         /\ c = nextId(conversations, SeedConversations)
         /\ conversations' = conversations \cup {c}
    /\ UNCHANGED <<now, store, served, req, client, grant, admin, polls,
                   views, dialog, reports, is_hidden, txs, messages, cleanup>>

\* cleanup_old_messages(): the old messages are deleted and counted, then
\* the conversations left without a message are deleted, in one
\* transaction.
CleanupOldMessages ==
    /\ cleanup.calls < MaxCleanups
    /\ LET deleted == {m \in messages : olderThanRetention(m.created_at)}
           kept == messages \ deleted
       IN
       /\ messages' = kept
       /\ conversations' =
            {c \in conversations : \E m \in kept : m.conversation_id = c}
       /\ cleanup' = [calls |-> cleanup.calls + 1,
                      deleted_count |-> <<Cardinality(deleted)>>]
    /\ UNCHANGED <<now, store, served, req, client, grant, admin, polls,
                   views, dialog, reports, is_hidden, txs>>

Messaging ==
    \/ SendMessage
    \/ StartConversation
    \/ CleanupOldMessages

\* ------------------------------------------------------------------ clock
Tick ==
    /\ now < MaxTime
    /\ now' = now + 1
    /\ UNCHANGED <<store, served, req, client, others>>

\* ------------------------------------------------------------------- init
\* The rows of the other tables when the application starts, and its
\* components before they are used: one open poll with two options and no
\* vote, a post two reports short of the threshold, two conversations with
\* messages around the retention limit and one without a message.
InitOthers ==
    /\ grant = NoGrant
    /\ admin = NoAdmin
    /\ community_polls =
         <<[community_id |-> 1, created_by |-> "U1", question |-> "Lunch?"]>>
    /\ community_poll_options =
         {[poll_id |-> 1, n |-> 1, option_text |-> "yes"],
          [poll_id |-> 1, n |-> 2, option_text |-> "no"]}
    /\ community_poll_votes = <<>>
    /\ views = [v \in {1, 2} |-> NoView]
    /\ dialog = NoDialog
    /\ reports = {[id |-> i, reported_type |-> "post", reported_id |-> 1] :
                    i \in 1..(HideThreshold - 2)}
    /\ is_hidden = {}
    /\ txs = [t \in {1, 2} |-> NoTx]
    /\ messages = SeedMessages
    /\ conversations = SeedConversations
    /\ cleanup = NoCleanup

Init ==
    /\ now = 0
    /\ user_sessions =
         [t \in {"T1", "T2", "T3", "T4", "T5", "TI"} |->
            CASE t = "T1" -> [user_id |-> "U1", is_active |-> TRUE, expires_at |-> 1]
              [] t = "T2" -> [user_id |-> "U2", is_active |-> TRUE, expires_at |-> 1]
              [] t = "T3" -> [user_id |-> "U3", is_active |-> TRUE, expires_at |-> 9]
              [] t = "T4" -> [user_id |-> "U4", is_active |-> TRUE, expires_at |-> 9]
              [] t = "T5" -> [user_id |-> "U5", is_active |-> TRUE, expires_at |-> 9]
              [] t = "TI" -> [user_id |-> "U1", is_active |-> FALSE, expires_at |-> 9]]
    /\ user_roles =
         {[user_id |-> "U1", role |-> "category_manager"],
          [user_id |-> "U3", role |-> "support_agent"],
          [user_id |-> "U4", role |-> "super_admin"],
          [user_id |-> "U5", role |-> "content_moderator"],
          [user_id |-> "U5", role |-> "support_agent"]}
    /\ promotional_content =
         [i \in {1} |-> [title |-> "Sale", description |-> "Summer",
                         content_type |-> "image", is_active |-> TRUE,
                         created_by |-> "U4"]]
    /\ nextPromotionId = 2
    /\ communities = [i \in {1} |-> [name |-> "club", created_by |-> "U1"]]
    /\ nextCommunityId = 2
    /\ community_members =
         {[community_id |-> 1, user_id |-> "U1", role |-> "admin"]}
    /\ community_permissions =
         {[user_id |-> "U3", community_id |-> 1, permission |-> "edit_community"],
          [user_id |-> "U3", community_id |-> 1, permission |-> "create_polls"]}
    /\ posts = [i \in {1, 2} |-> [user_id |-> IF i = 1 THEN "U1" ELSE "U2"]]
    /\ post_likes = {[post_id |-> 1, user_id |-> "U2"]}
    /\ comments = {[post_id |-> 1, user_id |-> "U3"]}
    /\ served = 0
    /\ req = NoRequest
    /\ hook = NoHook
    /\ InitOthers

Next ==
    \/ Tick
    \/ Finish
    \/ ManagePromotions
    \/ DeletePost
    \/ ManageCommunity

\* The edge functions, one request at a time, under a running clock.
Spec == Init /\ [][Next]_vars

\* The stores the permission hook is mounted over: communities created and
\* deleted by manage-community, and permission rows, which no code of the
\* repository writes.
ClientCommunities ==
    LET row(u) == [name |-> "club", created_by |-> u] IN
    {[i \in {1} |-> row("U1")],
     [i \in {1, 2} |-> row(IF i = 1 THEN "U1" ELSE "U2")],
     [i \in {2} |-> row("U3")],
     <<>>}

ClientPermissions ==
    LET row(u, c, p) == [user_id |-> u, community_id |-> c, permission |-> p] IN
    {{},
     {row("U3", 1, "edit_community"), row("U3", 1, "create_polls")},
     {row("U1", 1, "edit_community"), row("U2", 1, "moderate_discussions"),
      row("U2", 2, "edit_community"), row("U3", 2, "manage_members"),
      row("U3", 1, "create_polls")}}

InitClient ==
    /\ now = 0
    /\ user_sessions = <<>>
    /\ user_roles = {}
    /\ promotional_content = <<>>
    /\ nextPromotionId = 1
    /\ communities \in ClientCommunities
    /\ nextCommunityId = 3
    /\ community_members =
         {[community_id |-> c, user_id |-> communities[c].created_by,
           role |-> "admin"] : c \in DOMAIN communities}
           \cup {[community_id |-> 1, user_id |-> "U2", role |-> "member"]}
    /\ community_permissions \in ClientPermissions
    /\ posts = <<>>
    /\ post_likes = {}
    /\ comments = {}
    /\ served = 0
    /\ req = NoRequest
    /\ hook = NoHook
    /\ InitOthers

\* The browser's permission hook over a store at rest.
SpecClient == InitClient /\ [][UseCommunityPermissions]_vars

\* ------------------------------------------------- a caller's sequences
\* The requests of an admin screen and of the community form: a create with
\* its whole payload, and a toggle_active.
CallerRequests ==
    UNION {
      {[NewRequest("manage-promotions", "create", t, 0) EXCEPT
           !.title = "Sale", !.content_type = "image",
           !.description = d, !.is_active = ia] :
          t \in {"T1", "T4"}, d \in {Absent, "", "Half price"},
          ia \in OptBool},
      {[NewRequest("manage-promotions", "toggle_active", t, i) EXCEPT
           !.is_active = ia] :
          t \in {"T1", "T4"}, i \in 1..MaxId, ia \in {<<TRUE>>, <<FALSE>>}},
      {[NewRequest("manage-community", "create", "T3", 0) EXCEPT !.name = n] :
          n \in {"club", " club "}}
    }

\* The caller sends one of its requests; the handler parses it and tests
\* the token's presence.
CallerStart ==
    /\ Idle /\ served < MaxRequests
    /\ \E r \in CallerRequests :
         /\ (r.fn = "manage-promotions" /\ r.action = "create")
               => nextPromotionId <= MaxId
         /\ r.fn = "manage-community" => nextCommunityId <= MaxId
         /\ req' = IF r.session_token = ""
                   THEN ErrorResponse(r, 401,
                           IF r.fn = "manage-promotions"
                           THEN "Session token is required"
                           ELSE "No session token provided")
                   ELSE [r EXCEPT !.pc = "session"]
    /\ served' = served + 1
    /\ UNCHANGED <<now, store, client, others>>

\* The caller follows a successful create or toggle_active immediately with
\* a list under the same token, remembering the response it got (req.prev).
CallerList ==
    /\ req.pc = "done" /\ req.status = 200 /\ req.prev = <<>>
    /\ req.fn = "manage-promotions"
    /\ req.action \in {"create", "toggle_active"}
    /\ req' = [NewRequest("manage-promotions", "list", req.session_token, 0)
                 EXCEPT !.pc = "session", !.prev = <<req>>]
    /\ UNCHANGED <<now, store, served, client, others>>

NextCaller ==
    \/ CallerStart
    \/ CallerList
    \/ Finish
    \/ PromotionsSession
    \/ PromotionsRoles
    \/ PromotionsList
    \/ PromotionsCreate
    \/ PromotionsToggleActive
    \/ CommunitySession
    \/ CommunityCreate
    \/ CommunityAddMember

\* A caller's requests, one after the other, with the clock at rest.
SpecCaller == Init /\ [][NextCaller]_vars

\* ------------------------------------------------ other writers of a post
\* The user who likes and comments while a post is being deleted.
Readers == {"U3"}

\* toggle-like {user_id, post_id}, as PostCard.handleLike invokes it: the
\* user's like of a post that is there is inserted, or deleted when it is
\* there already; one statement of the store.
ToggleLike ==
    /\ \E u \in Readers, p \in DOMAIN posts :
          LET like == [post_id |-> p, user_id |-> u] IN
          post_likes' = IF like \in post_likes THEN post_likes \ {like}
                        ELSE post_likes \cup {like}
    /\ UNCHANGED <<now, user_sessions, user_roles, promotional_content,
                   nextPromotionId, communities, nextCommunityId,
                   community_members, community_permissions, posts, comments,
                   served, req, client, others>>

\* A user comments on a post that is there: one insert into comments.
AddComment ==
    /\ \E u \in Readers, p \in DOMAIN posts :
          /\ [post_id |-> p, user_id |-> u] \notin comments
          /\ comments' = comments \cup {[post_id |-> p, user_id |-> u]}
    /\ UNCHANGED <<now, user_sessions, user_roles, promotional_content,
                   nextPromotionId, communities, nextCommunityId,
                   community_members, community_permissions, posts, post_likes,
                   served, req, client, others>>

NextCascade ==
    \/ DeletePost
    \/ Finish
    \/ ToggleLike
    \/ AddComment

\* delete-post, step by step, among requests that like and comment.
SpecCascade == Init /\ [][NextCascade]_vars

\* ------------------------------------------------------------ revocation
\* The sessions that are signed out and the users whose roles are taken
\* away while requests are served.
SignedOut == {"T3", "T4"}
Demoted == {"U4"}

\* Sign-out: the session row is deactivated.
SignOut ==
    /\ \E t \in SignedOut :
          /\ user_sessions[t].is_active
          /\ user_sessions' = [user_sessions EXCEPT ![t].is_active = FALSE]
    /\ UNCHANGED <<now, user_roles, promotional_content, nextPromotionId,
                   communities, nextCommunityId, community_members,
                   community_permissions, posts, post_likes, comments,
                   served, req, client, others>>

\* A role row is removed.
RevokeRole ==
    /\ \E x \in user_roles :
          /\ x.user_id \in Demoted
          /\ user_roles' = user_roles \ {x}
    /\ UNCHANGED <<now, user_sessions, promotional_content, nextPromotionId,
                   communities, nextCommunityId, community_members,
                   community_permissions, posts, post_likes, comments,
                   served, req, client, others>>

NextRevocation ==
    \/ SignOut
    \/ RevokeRole
    \/ Finish
    \/ ManagePromotions
    \/ DeletePost

\* The handler with the inline session test and the role test, and a
\* handler that calls validate_session, while sessions are signed out and
\* roles removed, with the clock at rest.
SpecRevocation == Init /\ [][NextRevocation]_vars

\* ------------------------------------------------------------ poll views
\* Two poll views over the store, with the rest of the application at rest.
SpecVotes == Init /\ [][PollsTab]_vars

\* ------------------------------------------------------------ admin pages
\* The admin hook over the store's sessions and roles, under a running
\* clock.
SpecAdmin == Init /\ [][UseAdminAuthSupabase \/ Tick]_vars

\* --------------------------------------------------------------- reports
\* Two database sessions inserting reports, each in its own transaction.
SpecReports == Init /\ [][Reports]_vars

\* ----------------------------------------------------- granting from the hook
NextGrant ==
    \/ UseCommunityPermissions
    \/ GrantInvoke
    \/ CommunitySession
    \/ GrantReturn

\* The permission hook and the manage-community calls it makes.
SpecGrant == Init /\ [][NextGrant]_vars

\* ----------------------------------------------------------- poll creation
\* The dialog creating polls in community 1.
SpecDialog == Init /\ [][CreatePollDialog]_vars

\* ------------------------------------------------- editing from the hook
NextEdit ==
    \/ UseCommunityPermissions
    \/ EditorUpdate
    \/ CommunitySession
    \/ CommunityOwner
    \/ CommunityUpdate
    \/ Finish

\* The permission hook beside the update requests of its user.
SpecEdit == Init /\ [][NextEdit]_vars

\* -------------------------------------------------------------- messages
\* Messages being sent and cleaned up under a running clock.
SpecMessages == Init /\ [][Messaging \/ Tick]_vars

\* ================================================================ claims
\* The request has been answered.
Answered == req.pc = "done"

\* The session row of the request's token, when it has one.
HasRow(r) == r.session_token \in DOMAIN user_sessions
Row(r) == user_sessions[r.session_token]

\* The data model's invariant: a session is usable iff is_active and
\* expires_at > now, at the clock reading of the request's session test.
Usable(r) == HasRow(r) /\ Row(r).is_active /\ Row(r).expires_at > r.at

\* The request got past the handler's session test.
Accepted(r) == r.userId # ""

\* The request has left the tables as it found them.
Untouched(r) == Tables = r.before

\* The request is complete as far as its handler's input test goes
\* (delete-post answers a request without post_id before any session test).
WellFormed(r) == r.fn = "delete-post" => r.id # 0

\* C1: in each handler a request with a non-empty token whose token has no
\* row, or an inactive row, or an expired row (expires_at <= now), is
\* answered 401 {error: "Invalid or expired session"}, the same in the three
\* cases.
C1_UnusableSessionIs401 ==
    (Answered /\ req.session_token # "" /\ WellFormed(req) /\ ~Usable(req))
        => (req.status = 401 /\ req.error = "Invalid or expired session")

\* C2: a session whose expires_at is less than or equal to the clock is never
\* accepted, whichever validator tests it: a request gets past the session
\* test only with a row that is active and has expires_at > now.
C2_ExpiredNeverAccepted ==
    Accepted(req) => Usable(req)

\* The lookups that authenticate and authorize a request.
SessionLookups == {<<"select", "user_sessions">>, <<"rpc", "validate_session">>}
CapabilityLookups ==
    {<<"select", "user_roles">>, <<"select", "posts">>,
     <<"select", "communities">>}

\* The request's action has a capability test (join, leave and create of
\* manage-community need a valid session only).
NeedsCapability(r) ==
    r.fn # "manage-community" \/ r.action \in {"update", "delete"}

\* C3: in every handler the checks run in the order token presence, session
\* validation, capability test, stopping at the first failure, and every
\* mutation comes after them: a request answered 401 or 403 has issued no
\* mutation and left the tables as they were.
C3_ChecksBeforeMutation ==
    /\ (Answered /\ req.status \in {401, 403})
          => (Mutations(req) = {} /\ Untouched(req))
    /\ (Answered /\ req.status = 401)
          => IF req.session_token = "" THEN req.ops = <<>>
             ELSE Len(req.ops) = 1 /\ req.ops[1] \in SessionLookups
    /\ (Answered /\ req.status = 403)
          => /\ Len(req.ops) = 2
             /\ req.ops[1] \in SessionLookups
             /\ req.ops[2] \in CapabilityLookups
    /\ Mutations(req) # {}
          => /\ req.session_token # "" /\ Accepted(req)
             /\ req.ops[1] \in SessionLookups
             /\ NeedsCapability(req)
                   => (req.ops[2] \in CapabilityLookups
                       /\ \A i \in Mutations(req) : i > 2)

\* C3, its case: delete-post has refused a post that is not the requester's.
C3_Witness ==
    /\ Answered /\ req.fn = "delete-post" /\ req.status = 403
    /\ Len(req.ops) = 2 /\ post_likes # {}

\* C4: a request that carries no session token is answered 401 by every
\* handler, before any store access.
C4_MissingTokenIs401 ==
    (Answered /\ req.session_token = "")
        => (req.status = 401 /\ req.ops = <<>>)

\* The user a token's row names holds no role row.
HoldsNoRole(r) == HasRow(r) /\ rolesOf(Row(r).user_id) = {}

\* C5 as stated: for a user with zero role rows every action of
\* manage-promotions returns 403, whether or not the session is valid.
C5_NoRoleIs403 ==
    (Answered /\ req.fn = "manage-promotions" /\ HoldsNoRole(req))
        => req.status = 403

\* C5 amended: for a user with zero role rows who presents a valid session,
\* every action of manage-promotions, one outside the enumeration included,
\* returns 403 and changes nothing; when the session is not accepted the
\* answer is 401 and the role rows are not read.
C5_NoRoleValidSessionIs403 ==
    (Answered /\ req.fn = "manage-promotions" /\ HoldsNoRole(req))
        => /\ Usable(req)
              => /\ req.status = 403
                 /\ req.error = "Unauthorized - Admin access required"
                 /\ Untouched(req)
           /\ ~Accepted(req)
              => /\ req.status = 401
                 /\ <<"select", "user_roles">> \notin
                       {req.ops[i] : i \in 1..Len(req.ops)}

\* C5, its case: U2, who holds no role, is refused an action that exists.
C5_Witness ==
    /\ Answered /\ req.fn = "manage-promotions" /\ req.action = "delete"
    /\ req.session_token = "T2" /\ req.id = 1 /\ req.status = 403

\* C6: manage-promotions treats a user whose session it accepted as admin
\* iff one of the user's role rows is super_admin, content_moderator or
\* category_manager: with one, no action is answered 403; with none, every
\* action is answered 403 and the tables are left as they were.
C6_AdminIffRecognizedRole ==
    (Answered /\ req.fn = "manage-promotions" /\ Accepted(req))
        => /\ (req.status # 403) <=>
                 (\E x \in user_roles :
                     /\ x.user_id = req.userId
                     /\ x.role \in {"super_admin", "content_moderator",
                                    "category_manager"})
           /\ req.status = 403 => Untouched(req)

\* C6, its case: U5, content_moderator among other rows, has toggled a
\* promotion.
C6_Witness ==
    /\ Answered /\ req.fn = "manage-promotions" /\ req.userId = "U5"
    /\ req.action = "toggle_active" /\ req.status = 200 /\ ~Untouched(req)

\* A permission row is stored for (user, community, permission).
Stored(user, communityId, permission) ==
    \E x \in community_permissions :
        /\ x.user_id = user /\ x.community_id = communityId
        /\ x.permission = permission

C8_NonCreatorRefused ==
    (/\ Answered /\ req.fn = "manage-community"
     /\ req.action \in {"update", "delete"}
     /\ Usable(req)
     /\ req.id \in DOMAIN req.before[2]
     /\ req.before[2][req.id].created_by # Row(req).user_id
     /\ \A p \in CommunityPermissionType :
           ~Stored(Row(req).user_id, req.id, p))
        => /\ req.status = 403
           /\ req.error = IF req.action = "update"
                          THEN "Not authorized to update this community"
                          ELSE "Not authorized to delete this community"
           /\ communities = req.before[2]
           /\ Untouched(req)

\* C8, its case: U2 has been refused the update of U1's community.
C8_Witness ==
    /\ Answered /\ req.fn = "manage-community" /\ req.action = "update"
    /\ req.session_token = "T2" /\ req.id = 1 /\ req.name = " chess "
    /\ req.status = 403

\* C9: delete-post deletes a post only for its owner: a valid session whose
\* user is not the post's user_id is answered 403 and the post, its likes
\* and its comments are left as they were; a request that has deleted
\* anything is the owner's.
C9_OnlyOwnerDeletes ==
    /\ (/\ Answered /\ req.fn = "delete-post" /\ Usable(req)
        /\ req.id \in DOMAIN req.before[4]
        /\ req.before[4][req.id].user_id # Row(req).user_id)
          => /\ req.status = 403
             /\ posts = req.before[4]
             /\ post_likes = req.before[5]
             /\ comments = req.before[6]
    /\ (req.fn = "delete-post" /\ ~Untouched(req))
          => /\ req.id \in DOMAIN req.before[4]
             /\ req.before[4][req.id].user_id = req.userId
             /\ Usable(req)

\* C9, its case: U2 has been refused the deletion of U1's post, which has a
\* like and a comment.
C9_Witness ==
    /\ Answered /\ req.fn = "delete-post" /\ req.session_token = "T2"
    /\ req.id = 1 /\ req.status = 403
    /\ \E l \in post_likes : l.post_id = 1
    /\ \E c \in comments : c.post_id = 1

\* The request's action is outside its handler's enumeration.
UnknownAction(r) ==
    \/ r.fn = "manage-promotions" /\ r.action \notin PromotionActions
    \/ r.fn = "manage-community" /\ r.action \notin CommunityActions

\* C10 as stated: a request with an action outside the enumeration is
\* answered 400 {error: "Invalid action"} with no store access at all.
C10_UnknownActionNoAccess ==
    (Answered /\ UnknownAction(req))
        => (req.status = 400 /\ req.error = "Invalid action" /\ req.ops = <<>>)

\* The request is authorized as far as its handler tests it before the
\* dispatch: a usable session and, for manage-promotions, a recognized role.
Authorized(r) ==
    /\ Usable(r)
    /\ r.fn = "manage-promotions" =>
          (rolesOf(Row(r).user_id) \cap RecognizedRoles # {})

\* C10 amended: a request with an action outside the enumeration reads the
\* session (and, in manage-promotions, the role rows) before its action is
\* looked at, and nothing else: it issues no mutation, reads no content
\* table and leaves the tables as they were; when it is authorized it is
\* answered 400 {error: "Invalid action"}, and it is never answered anything
\* but that, 401 or 403.
C10_UnknownActionAfterLookups ==
    (Answered /\ UnknownAction(req))
        => /\ Untouched(req)
           /\ \A i \in 1..Len(req.ops) :
                 req.ops[i] \in SessionLookups \cup {<<"select", "user_roles">>}
           /\ req.status \in {400, 401, 403}
           /\ req.status = 400 => req.error = "Invalid action"
           /\ Authorized(req)
                 => /\ req.status = 400
                    /\ Len(req.ops) =
                          IF req.fn = "manage-promotions" THEN 2 ELSE 1

\* C10, its case: U2's "frobnicate" has been answered by manage-community
\* after the session lookup.
C10_Witness ==
    /\ Answered /\ req.fn = "manage-community" /\ req.action = "frobnicate"
    /\ req.status = 400 /\ req.error = "Invalid action"
    /\ req.ops = << <<"rpc", "validate_session">> >>

\* The request asks for the deletion of the resource its id names.
DeleteRequest(r) ==
    \/ r.fn = "delete-post"
    \/ r.fn \in {"manage-promotions", "manage-community"} /\ r.action = "delete"

\* The table of the resource a request names, as it was when it arrived.
ResourcesBefore(r) ==
    CASE r.fn = "manage-promotions" -> r.before[1]
      [] r.fn = "manage-community" -> r.before[2]
      [] OTHER -> r.before[4]

\* The id the request names was given to a row that is no longer there
\* (posts are never inserted here: an absent post id is a deleted one or
\* one that never was).
Gone(r) ==
    /\ r.id # 0 /\ r.id \notin DOMAIN ResourcesBefore(r)
    /\ r.fn = "manage-promotions" => r.id < nextPromotionId
    /\ r.fn = "manage-community" => r.id < nextCommunityId

\* C11: a delete of a resource id that has already been deleted, by a caller
\* who is otherwise authorized and whose statements the store does not
\* reject, is answered 404 in each of the three handlers.
C11_DeleteOfDeletedIs404 ==
    (/\ Answered /\ DeleteRequest(req) /\ Authorized(req)
     /\ Gone(req) /\ req.rejected = {})
        => req.status = 404

\* The request asks for the update of the resource its id names, with the
\* fields its action requires.
UpdateRequest(r) ==
    \/ /\ r.fn = "manage-promotions"
       /\ \/ r.action = "update"
          \/ r.action = "toggle_active" /\ r.is_active # Undefined
    \/ r.fn = "manage-community" /\ r.action = "update"

\* C12: an update or toggle_active (manage-promotions) or an update
\* (manage-community) that names an id with no row, by a caller who is
\* otherwise authorized and whose statements the store does not reject, is
\* answered 404.
C12_UpdateOfMissingIs404 ==
    (/\ Answered /\ UpdateRequest(req) /\ Authorized(req)
     /\ req.id # 0 /\ req.id \notin DOMAIN ResourcesBefore(req)
     /\ req.rejected = {})
        => req.status = 404

\* The response the caller got from the request before this one.
Prev == req.prev[1]

\* A list has been answered to a caller who had just got 200 for `action`.
ListedAfter(action) ==
    /\ Answered /\ req.fn = "manage-promotions" /\ req.action = "list"
    /\ req.status = 200 /\ req.prev # <<>> /\ Prev.action = action

\* C13 as stated: after a successful create, the list (the returned row, for
\* a community) shows a row whose submitted fields equal exactly the values
\* submitted, for every admissible payload.
C13_RoundTripExact ==
    /\ ListedAfter("create")
          => \E i \in DOMAIN req.data[1] :
                LET row == req.data[1][i] IN
                /\ row.title = Prev.title
                /\ row.content_type = Prev.content_type
                /\ Prev.description # Absent
                      => row.description = Prev.description
                /\ Prev.is_active # Undefined
                      => row.is_active = Prev.is_active[1]
    /\ (/\ Answered /\ req.fn = "manage-community" /\ req.action = "create"
        /\ req.status = 200)
          => /\ req.data[2].name = req.name
             /\ communities[req.data[1]].name = req.name

\* C13 amended: after a successful create the list shows, under an id that
\* was free before, a row that holds the submitted values as the handler
\* normalises them: title and content_type as sent, an optional text that
\* was left out or sent empty as null, is_active as sent or true when left
\* out, created_by the session's user; the other rows are as before.  A
\* created community is returned and stored with its name trimmed and
\* created_by the session's user.
C13_RoundTripNormalised ==
    /\ ListedAfter("create")
          => LET i == Prev.data[1]
                 listed == req.data[1]
             IN
             /\ i \notin DOMAIN Prev.before[1] /\ i \in DOMAIN listed
             /\ listed[i].title = Prev.title
             /\ listed[i].content_type = Prev.content_type
             /\ listed[i].description =
                   (IF Prev.description \in {Absent, ""} THEN Null
                    ELSE Prev.description)
             /\ listed[i].is_active =
                   (IF Prev.is_active = Undefined THEN TRUE
                    ELSE Prev.is_active[1])
             /\ listed[i].created_by = user_sessions[Prev.session_token].user_id
             /\ listed[i] = Prev.data[2]
             /\ \A k \in DOMAIN Prev.before[1] :
                   k \in DOMAIN listed /\ listed[k] = Prev.before[1][k]
    /\ (/\ Answered /\ req.fn = "manage-community" /\ req.action = "create"
        /\ req.status = 200)
          => LET i == req.data[1] IN
             /\ i \notin DOMAIN req.before[2] /\ i \in DOMAIN communities
             /\ communities[i] = req.data[2]
             /\ communities[i].name = Trim(req.name)
             /\ Trim(communities[i].name) = communities[i].name
             /\ communities[i].created_by =
                   user_sessions[req.session_token].user_id

\* C13, its case: a promotion created with an empty description and
\* is_active false has been listed.
C13_Witness ==
    /\ ListedAfter("create")
    /\ Prev.description = "" /\ Prev.is_active = <<FALSE>>
    /\ Prev.data[1] \in DOMAIN req.data[1]

\* The user of the request's session holds the role category_manager.
CategoryManager(r) ==
    /\ Usable(r)
    /\ [user_id |-> Row(r).user_id, role |-> "category_manager"] \in user_roles

\* A toggle_active of a category manager on a promotion that exists, which
\* the store does not reject, is answered 200.
ToggleAnswered200 ==
    (/\ Answered /\ req.fn = "manage-promotions"
     /\ req.action = "toggle_active" /\ req.is_active # Undefined
     /\ CategoryManager(req) /\ req.id \in DOMAIN req.before[1]
     /\ req.rejected = {})
        => (req.status = 200 /\ req.error = "")

\* A list has been answered to a category manager who had just toggled a
\* promotion that exists.
ListedAfterToggle ==
    /\ ListedAfter("toggle_active") /\ CategoryManager(Prev)
    /\ Prev.id \in DOMAIN Prev.before[1]

\* C14 as stated: toggle_active by a category manager on a promotion that
\* exists returns 200, and a list that follows shows the promotion's
\* is_active flipped with respect to its value before the call.
C14_ToggleFlips ==
    /\ ToggleAnswered200
    /\ ListedAfterToggle
          => req.data[1][Prev.id].is_active =
                ~Prev.before[1][Prev.id].is_active

\* C14 amended: toggle_active {id, is_active: b} by a category manager on a
\* promotion that exists returns 200 unless the store rejects the update,
\* and a list that follows shows the promotion with is_active = b and
\* nothing else changed: the flag is flipped exactly when b is the negation
\* of its value before the call.
C14_ToggleSets ==
    /\ ToggleAnswered200
    /\ ListedAfterToggle
          => LET was == Prev.before[1]
                 listed == req.data[1]
             IN
             /\ DOMAIN listed = DOMAIN was
             /\ listed[Prev.id] =
                   [was[Prev.id] EXCEPT !.is_active = Prev.is_active[1]]
             /\ (listed[Prev.id].is_active # was[Prev.id].is_active)
                   <=> (Prev.is_active[1] # was[Prev.id].is_active)
             /\ \A k \in DOMAIN was \ {Prev.id} : listed[k] = was[k]

\* C14, its case: T1's user, category_manager, has switched promotion 1 off
\* and the list shows it.
C14_Witness ==
    /\ ListedAfterToggle
    /\ Prev.session_token = "T1" /\ Prev.id = 1
    /\ Prev.before[1][1].is_active /\ ~req.data[1][1].is_active

\* The response is a failure: a status outside 2xx with an {error} body.
ErrorAnswer(r) == r.status \notin 200..299 /\ r.error # ""

\* A request that was not answered 2xx changed nothing, but for the likes
\* and comments a delete-post may have deleted before its post deletion
\* failed.
FailureChangesNothing ==
    (Answered /\ req.status \notin 200..299)
        => IF req.fn = "delete-post"
           THEN /\ promotional_content = req.before[1]
                /\ communities = req.before[2]
                /\ community_members = req.before[3]
                /\ posts = req.before[4]
                /\ post_likes \subseteq req.before[5]
                /\ comments \subseteq req.before[6]
           ELSE Untouched(req)

\* C15: for every handler and action, every failure (a test of the handler
\* that fails, a statement the store rejects) is answered with a status
\* outside 2xx and an {error} body, and a response outside 2xx means that
\* the request changed nothing in the store, delete-post's likes and
\* comments excepted.
C15_FailureIsErrorAndFrame ==
    /\ (Answered /\ req.rejected # {}) => ErrorAnswer(req)
    /\ (Answered /\ req.status \notin 200..299) => req.error # ""
    /\ FailureChangesNothing

\* C16: whenever the store rejects a statement a handler issued, the
\* handler's response has status 500.
C16_StoreRejectionIs500 ==
    (Answered /\ req.rejected # {}) => req.status = 500

\* The tables of the mutations a request has issued, in their order.
MutatedTables(r) ==
    LET F[i \in 0..Len(r.ops)] ==
          IF i = 0 THEN <<>>
          ELSE IF r.ops[i][1] \in MutationKinds
               THEN Append(F[i - 1], r.ops[i][2]) ELSE F[i - 1]
    IN F[Len(r.ops)]

\* s is a prefix of t.
IsPrefix(s, t) == Len(s) <= Len(t) /\ \A i \in 1..Len(s) : s[i] = t[i]

\* The store rejected the request's post deletion after it had accepted
\* the deletion of the likes and of the comments.
PostDeletionFailedAlone(r) ==
    /\ r.fn = "delete-post" /\ r.pc = "done"
    /\ Len(r.ops) = 5 /\ r.ops[5] = <<"delete", "posts">>
    /\ r.rejected = {5}

\* C17: delete-post deletes in the order likes, comments, post and without
\* a transaction: when the post deletion fails after the two child
\* deletions succeeded, the response is an error, the post row remains and
\* its likes and comments stay deleted.
C17_PartialCascade ==
    /\ req.fn = "delete-post"
          => IsPrefix(MutatedTables(req), <<"post_likes", "comments", "posts">>)
    /\ PostDeletionFailedAlone(req)
          => /\ ErrorAnswer(req) /\ req.status = 500
             /\ req.id \in DOMAIN posts /\ posts = req.before[4]
             /\ post_likes = {l \in req.before[5] : l.post_id # req.id}
             /\ comments = {c \in req.before[6] : c.post_id # req.id}

\* C17, its case: the deletion of post 1 has failed and its like and its
\* comment are gone.
C17_Witness ==
    /\ PostDeletionFailedAlone(req) /\ req.id = 1
    /\ \E l \in req.before[5] : l.post_id = 1
    /\ \E c \in req.before[6] : c.post_id = 1
    /\ post_likes = {} /\ comments = {}

C19_RevocationHonoured ==
    [][/\ (/\ req.pc = "session" /\ req' # req
           /\ HasRow(req) /\ ~Row(req).is_active)
             => /\ req'.pc = "done" /\ req'.status = 401
                /\ req'.userId = "" /\ Mutations(req') = {}
       /\ (/\ req.pc = "roles" /\ req' # req
           /\ rolesOf(req.userId) \cap RecognizedRoles = {})
             => /\ req'.pc = "done" /\ req'.status = 403
                /\ Mutations(req') = {}
      ]_vars

\* C19, its case: T4's user created promotion 2 in an earlier request, then
\* the session was signed out, and the next request with T4 is answered 401.
C19_Witness ==
    /\ 2 \in DOMAIN promotional_content
    /\ promotional_content[2].created_by = "U4"
    /\ ~user_sessions["T4"].is_active
    /\ Answered /\ req.fn = "manage-promotions" /\ req.session_token = "T4"
    /\ req.status = 401 /\ served = 2

\* A membership row of the request's user in the community it names.
OwnMembership(r, m) ==
    m.user_id = Row(r).user_id /\ m.community_id = r.id

\* C20: join and leave of manage-community need a valid session only: with
\* one, and a community_id, they are never answered 401 or 403, whatever
\* the user's roles or ownership, and they are answered 200 unless the
\* store rejects their statement.  A join adds the row (community, user,
\* member) and nothing else, a leave removes the user's rows in that
\* community and nothing else: no other user's membership, no other
\* community's membership and no other table changes.
C20_JoinLeaveOwnMembershipOnly ==
    (/\ Answered /\ req.fn = "manage-community"
     /\ req.action \in {"join", "leave"}
     /\ Usable(req) /\ req.id # 0)
        => LET was == req.before[3] IN
           /\ req.status \notin {401, 403}
           /\ req.rejected = {} => req.status = 200
           /\ {m \in community_members : ~OwnMembership(req, m)}
                 = {m \in was : ~OwnMembership(req, m)}
           /\ (req.action = "join" /\ req.status = 200)
                 => community_members = was \cup
                       {[community_id |-> req.id, user_id |-> Row(req).user_id,
                         role |-> "member"]}
           /\ (req.action = "leave" /\ req.status = 200)
                 => community_members = {m \in was : ~OwnMembership(req, m)}
           /\ req.status # 200 => community_members = was
           /\ promotional_content = req.before[1]
           /\ communities = req.before[2]
           /\ posts = req.before[4]
           /\ post_likes = req.before[5]
           /\ comments = req.before[6]

\* C20, its case: U2, who holds no role and owns no community, has joined
\* community 1, in which U1 is still the admin member.
C20_Witness ==
    /\ Answered /\ req.fn = "manage-community" /\ req.action = "join"
    /\ req.session_token = "T2" /\ req.id = 1 /\ req.status = 200
    /\ [community_id |-> 1, user_id |-> "U2", role |-> "member"]
          \in community_members
    /\ [community_id |-> 1, user_id |-> "U1", role |-> "admin"]
          \in community_members

\* ------------------------------------------------------------------- C21
\* C21: session validation is read-only.  No step of any handler, and no
\* call of validate_session, changes a session row: is_active and
\* expires_at of every row are after the step what they were before it.
C21_SessionsReadOnly == [][user_sessions' = user_sessions]_vars

\* A request has been refused at its session test because the row it read
\* had expired, and the row is still there and still active.
C21_Witness ==
    /\ Answered /\ req.status = 401 /\ req.ops # <<>>
    /\ HasRow(req) /\ Row(req).is_active /\ Row(req).expires_at <= now

\* ------------------------------------------------------------------- C22
\* C22: after any sequence and interleaving of handleVote calls, the store
\* holds at most one community_poll_votes row for each poll and user.
C22_OneVotePerUser ==
    \A i, j \in 1..Len(community_poll_votes) :
      (/\ community_poll_votes[i].poll_id = community_poll_votes[j].poll_id
       /\ community_poll_votes[i].user_id = community_poll_votes[j].user_id)
        => i = j

\* ------------------------------------------------------------------- C23
\* C23: when the load has ended, the hook reports a user and roles only if
\* the stored token validated, the reported user is the owner of the
\* validated session and that owner has a role row; in every other case the
\* stored admin session is cleared and the hook reports no user and no
\* roles.
C23_AdminOnlyForTokenOwner ==
    (admin.pc = "loaded" /\ ~admin.loading) =>
      IF admin.user # "" /\ isAdmin
      THEN /\ admin.validatedUserId # ""
           /\ admin.user = admin.validatedUserId
           /\ rolesOf(admin.validatedUserId) # {}
      ELSE admin.stored = <<>> /\ admin.user = "" /\ admin.roles = {}

\* ------------------------------------------------------------------- C24
\* C24: once every inserting transaction has committed, every post with
\* HideThreshold or more reports of type 'post' is hidden.
C24_ReportedPostsHidden ==
    (\A t \in DOMAIN txs : txs[t].pc = "idle") =>
      \A p \in DOMAIN posts :
        postReports(reports, p) >= HideThreshold => p \in is_hidden

\* ------------------------------------------------------------------- C25
\* The call that has returned was made by the community's creator under a
\* session that was valid when the handler tested it.
CreatorCalled ==
    /\ grant.pc = "returned" /\ grant.response # <<>>
    /\ grant.communityId \in DOMAIN communities
    /\ communities[grant.communityId].created_by = grant.user
    /\ Usable(grant.response[1])
    /\ Row(grant.response[1]).user_id = grant.user

\* C25: grantPermission(u, p) and revokePermission(u, p) called by the
\* community's creator with a valid session are accepted by manage-community
\* (not answered 400 "Invalid action"), return true, and leave u holding,
\* respectively not holding, permission p on the community.
C25_GrantRevokeAccepted ==
    CreatorCalled =>
      /\ grant.response[1].error # "Invalid action"
      /\ grant.result = <<TRUE>>
      /\ grant.action = "grant_permission" =>
           Stored(grant.target_user_id, grant.communityId, grant.permission)
      /\ grant.action = "revoke_permission" =>
           ~Stored(grant.target_user_id, grant.communityId, grant.permission)

\* ------------------------------------------------------------------- C26
\* C26: whenever manage-community create is answered 200, the store holds
\* the new community with created_by the session's user and the row of
\* community_members that makes this user its admin.
C26_CreateRecordsAdmin ==
    (/\ Answered /\ req.fn = "manage-community" /\ req.action = "create"
     /\ req.status = 200) =>
      /\ req.id \in DOMAIN communities
      /\ communities[req.id].created_by = Row(req).user_id
      /\ [community_id |-> req.id, user_id |-> Row(req).user_id,
          role |-> "admin"] \in community_members

\* ------------------------------------------------------------------- C27
\* C27: once the hook has fetched, it reports isCreator (and with it every
\* permission) only for a signed-in user whose id is the created_by of the
\* community row it loaded; without a signed-in user, or without a loaded
\* community row, isCreator is false.
C27_CreatorNeedsUserAndCommunity ==
    (hook.pc = "ready" /\ ~hook.loading) =>
      /\ hook.isCreator =>
           /\ hook.user # ""
           /\ hook.communityId \in DOMAIN communities
           /\ communities[hook.communityId].created_by = hook.user
      /\ hook.isCreator => \A p \in CommunityPermissionType : hasPermission(p)

\* ------------------------------------------------------------------- C28
\* The non-blank options of a poll.
OptionsOf(poll_id) ==
    {o \in community_poll_options :
       o.poll_id = poll_id /\ Trim(o.option_text) # ""}

\* C28: whenever handleSubmit is not between its two inserts, every row of
\* community_polls has at least two options with non-blank text.
C28_PollsHaveOptions ==
    dialog.pc \notin {"poll", "options"} =>
      \A i \in 1..Len(community_polls) : Cardinality(OptionsOf(i)) >= 2

\* ------------------------------------------------------------------- C29
\* An update request of the hook's user on the hook's community, sent under
\* a valid session, has been answered while the hook shows what it fetched.
EditorAnswered ==
    /\ Answered /\ req.fn = "manage-community" /\ req.action = "update"
    /\ Usable(req) /\ Row(req).user_id = hook.user
    /\ hook.pc = "ready" /\ ~hook.loading /\ req.id = hook.communityId

\* C29: the hook's canEdit is true exactly when the update request of the
\* same user on the same community passes the handler's authorization check,
\* that is, is not answered 403.
C29_CanEditAgreesWithHandler ==
    EditorAnswered => (canEdit <=> req.status # 403)

\* ------------------------------------------------------------------- C30
\* C30: a call of cleanup_old_messages deletes exactly the messages whose
\* created_at lies more than RetentionDays before now and returns their
\* number; the younger messages are untouched, and after the call every
\* conversation in the store has a message.
C30_CleanupExact ==
    [][cleanup'.calls # cleanup.calls =>
         LET old == {m \in messages : now - m.created_at > RetentionDays} IN
         /\ messages' = messages \ old
         /\ cleanup'.deleted_count = <<Cardinality(old)>>
         /\ conversations' \subseteq conversations
         /\ \A c \in conversations' :
              \E m \in messages' : m.conversation_id = c]_vars

\* A call has deleted three messages and returned 3 while a message aged
\* exactly RetentionDays is still there, and the conversation whose messages
\* were all old is gone.
C30_Witness ==
    /\ cleanup.calls = 1 /\ cleanup.deleted_count = <<3>>
    /\ \E m \in messages : now - m.created_at = RetentionDays
    /\ 2 \notin conversations /\ 1 \in conversations

====
